---- MODULE Spec2Model ----
(***************************************************************************)
(* FluidSdk: the feedback attestation pipeline (ExecuteTask.giveFeedback,  *)
(* src/src/helpers/execution.ts) as a state machine.  Several calls of     *)
(* giveFeedback run interleaved against one reputation registry; every     *)
(* await of the code is a point where another call may run.                *)
(*                                                                         *)
(* Specifications:                                                         *)
(*   Spec             one call of giveFeedback, any input                  *)
(*   SpecInterleaved  NRuns calls for the same agent and wallet            *)
(*   SpecSign         calls of signFeedbackAuth while the clock advances   *)
(*   SpecHash         the sorted-key serialization and hash of records     *)
(*                    whose keys were inserted in any order                *)
(*   SpecRead         IPFSClient.get (src/unnamed/part_003) and the        *)
(*                    fetches of its gateways                              *)
(*   SpecCrawl        a call of fetchMcpCapabilities or of                 *)
(*                    fetchA2aCapabilities on an EndpointCrawler           *)
(*                    (src/unnamed/part_002, src/unnamed/part_001) and     *)
(*                    the requests it makes to a remote that answers as    *)
(*                    it likes                                             *)
(*   SpecCrawlFair    SpecCrawl with the scheduling of the runtime         *)
(*   SpecReply        _jsonRpcCall given the reply of one request          *)
(*                                                                         *)
(* Strings that the code parses are sequences of one-character strings.    *)
(* JavaScript values are records tagged with their type, so that NaN,      *)
(* undefined and null are values.                                          *)
(***************************************************************************)
EXTENDS Integers, Sequences, FiniteSets, TLC

\* ------------------------------------------------------------------ bounds

\* Number of interleaved calls of giveFeedback.
NRuns == 2
\* Largest last-used feedback index the registry starts with.
MaxInitIndex == 2

Runs == 1..NRuns

\* ------------------------------------------------- JavaScript primitives

Range(seq) == {seq[i] : i \in 1..Len(seq)}

\* JavaScript values carry their type: undefined, null, a number (NaN or an
\* integer), a number given in tenths (a fractional input), a string, an
\* object.
Undef == [t |-> "undef"]
Null == [t |-> "null"]
NaN == [t |-> "num", nan |-> TRUE, v |-> 0]
Num(n) == [t |-> "num", nan |-> FALSE, v |-> n]
Tenths(n) == [t |-> "tenths", v |-> n]
Str(s) == [t |-> "str", v |-> s]
\* A string of hex digits, given by the bytes it stands for.
Hex(bytes) == [t |-> "hex", v |-> bytes]
Obj(f) == [t |-> "obj", v |-> f]

DigitChars == {"0", "1", "2", "3", "4", "5", "6", "7", "8", "9"}

DigitVal(c) ==
    CASE c = "0" -> 0 [] c = "1" -> 1 [] c = "2" -> 2 [] c = "3" -> 3
      [] c = "4" -> 4 [] c = "5" -> 5 [] c = "6" -> 6 [] c = "7" -> 7
      [] c = "8" -> 8 [] c = "9" -> 9

\* String.prototype.split(sep) for a one-character separator: the pieces
\* between the separators, empty pieces kept; "" gives one empty piece.
RECURSIVE SplitFrom(_, _, _, _)
SplitFrom(s, sep, i, cur) ==
    IF i > Len(s) THEN <<cur>>
    ELSE IF s[i] = sep THEN <<cur>> \o SplitFrom(s, sep, i + 1, <<>>)
    ELSE SplitFrom(s, sep, i + 1, Append(cur, s[i]))

Split(s, sep) == SplitFrom(s, sep, 1, <<>>)

\* The value of the longest prefix of digits of s from position i, given the
\* value acc of the digits read so far.
RECURSIVE DigitsFrom(_, _, _)
DigitsFrom(s, i, acc) ==
    IF i > Len(s) \/ s[i] \notin DigitChars THEN acc
    ELSE DigitsFrom(s, i + 1, 10 * acc + DigitVal(s[i]))

RECURSIVE SkipSpaces(_, _)
SkipSpaces(s, i) ==
    IF i <= Len(s) /\ s[i] = " " THEN SkipSpaces(s, i + 1) ELSE i

\* parseInt(s, 10): leading white space skipped, an optional sign, then the
\* longest run of decimal digits; NaN when there is no digit there.  What
\* follows the digits is ignored.
ParseInt(s) ==
    LET i == SkipSpaces(s, 1)
        signed == i <= Len(s) /\ s[i] \in {"+", "-"}
        j == IF signed THEN i + 1 ELSE i
        mag == DigitsFrom(s, j, 0)
    IN  IF j > Len(s) \/ s[j] \notin DigitChars THEN NaN
        ELSE IF signed /\ s[i] = "-" THEN Num(0 - mag)
        ELSE Num(mag)

\* BigInt(x) throws a RangeError for NaN.
BigIntThrows(x) == x.nan

\* ethers refuses to encode a uint256 argument that is negative.
Uint256Throws(x) == x.v < 0

\* ---------------------------------------------------------- configuration

\* DEFAULT_REGISTRIES: the registries of each configured chain.
RegistryChains == {11155111, 84532, 59141, 80002}

\* The table without Linea Sepolia, as the table of subgraph URLs is.
DEFAULT_REGISTRIES_NoLinea ==
    [c \in RegistryChains \ {59141} |->
        [IDENTITY |-> "0x5f63c5784DFE968f06d5e6ba16cB6018163827Be",
         REPUTATION |-> "0xa3e1FF3Dc554233466a0095ED85fd88965362B7A",
         VALIDATION |-> "0x17EFDCdDED2E6B4A30Df358F3BB84B12673d025E"]]

DEFAULT_REGISTRIES ==
    [c \in RegistryChains |->
        [IDENTITY |-> "0x5f63c5784DFE968f06d5e6ba16cB6018163827Be",
         REPUTATION |-> "0xa3e1FF3Dc554233466a0095ED85fd88965362B7A",
         VALIDATION |-> "0x17EFDCdDED2E6B4A30Df358F3BB84B12673d025E"]]

\* DEFAULT_REGISTRIES[chainId] || {} : absent entries read as undefined ("").
RegistriesOf(chainId) ==
    IF chainId \in DOMAIN DEFAULT_REGISTRIES
    THEN DEFAULT_REGISTRIES[chainId]
    ELSE [IDENTITY |-> "", REPUTATION |-> "", VALIDATION |-> ""]

\* ------------------------------------------------------- feedback record

\* Math.round of a number given in tenths: to the nearest integer, halves up.
MathRound(x) == Num((x.v + 5) \div 10)

\* An assignment that keeps the target's value of a key the target has.
ObjectAssign_KeepTarget(target, source) ==
    [k \in DOMAIN target \cup DOMAIN source |->
        IF k \in DOMAIN target THEN target[k] ELSE source[k]]

\* Object.assign(target, source): the source's keys are added or overwrite.
ObjectAssign(target, source) ==
    [k \in DOMAIN target \cup DOMAIN source |->
        IF k \in DOMAIN source THEN source[k] ELSE target[k]]

\* The keys of an object whose value is neither undefined nor null.
DefinedKeys(o) == {k \in DOMAIN o : o[k] /= Undef /\ o[k] /= Null}

EmptyObject == [k \in {} |-> Undef]

\* prepareFeedback refuses an identifier that has not two parts or whose
\* second part is empty.
PrepareThrows(agentId) ==
    LET agentIdParts == Split(agentId, ":")
    IN  Len(agentIdParts) /= 2 \/ agentIdParts[2] = <<>>

\* prepareFeedback: the feedback file, undefined values removed, the
\* caller's extra fields assigned last.
PrepareFeedback(agentId, clientAddress, chainId, identityRegistryAddress, params, createdAt) ==
    LET agentIdParts == Split(agentId, ":")
        tokenId == ParseInt(agentIdParts[2])
        tagsArray == params.tags
        feedbackData ==
            [agentRegistry |-> Str(<<"eip155", chainId, identityRegistryAddress>>),
             agentId |-> tokenId,
             clientAddress |-> Str(<<"eip155", chainId, clientAddress>>),
             createdAt |-> createdAt,
             feedbackAuth |-> Str(<<>>),
             score |-> IF params.score /= Undef THEN MathRound(params.score)
                       ELSE Num(0),
             tag1 |-> IF Len(tagsArray) > 0 /\ tagsArray[1] /= <<>>
                      THEN Str(tagsArray[1]) ELSE Undef,
             tag2 |-> IF Len(tagsArray) > 1 THEN Str(tagsArray[2]) ELSE Undef,
             skill |-> params.skill,
             context |-> params.context,
             task |-> params.task,
             capability |-> params.capability,
             name |-> params.name,
             proofOfPayment |-> params.proofOfPayment]
        cleaned == [k \in DefinedKeys(feedbackData) |-> feedbackData[k]]
    IN  ObjectAssign(cleaned, params.extra)

\* TextEncoder.encode of one character: its UTF-8 bytes.  A character of
\* one byte stands for that byte.
Utf8Bytes(c) ==
    CASE c = "e_acute" -> <<"c3", "a9">>
      [] c = "NUL" -> <<"00">>
      [] OTHER -> <<c>>

RECURSIVE TextEncode(_)
TextEncode(text) ==
    IF text = <<>> THEN <<>>
    ELSE Utf8Bytes(Head(text)) \o TextEncode(Tail(text))

Bytes32Len == 32

ZeroBytes32 == [i \in 1..Bytes32Len |-> "00"]

\* The last 32 bytes of the text kept when it is longer.
StringToBytes32_LastBytes(text) ==
    LET encoded == TextEncode(text)
        skipped == IF Len(encoded) > Bytes32Len THEN Len(encoded) - Bytes32Len ELSE 0
    IN  [i \in 1..Bytes32Len |->
            IF i + skipped <= Len(encoded) THEN encoded[i + skipped] ELSE "00"]

\* stringToBytes32: the text's UTF-8 bytes left-aligned in 32 bytes,
\* zero-padded, cut after the 32nd byte; 32 zero bytes for the empty text.
StringToBytes32(text) ==
    IF text = <<>> THEN ZeroBytes32
    ELSE LET encoded == TextEncode(text)
             length == IF Len(encoded) < Bytes32Len THEN Len(encoded) ELSE Bytes32Len
         IN  [i \in 1..Bytes32Len |-> IF i <= length THEN encoded[i] ELSE "00"]

\* ----------------------------------------------------- authorization token

ExpiryHoursDefault == 24

\* The first reading of the wall clock, in Unix seconds.
ClockSeconds == 1000

\* The wall clock, Date.now(): milliseconds since the epoch.
VARIABLE now

\* signFeedbackAuth throws before signing when a BigInt conversion or the
\* uint256 encoding of tokenId, indexLimit or chainId fails.
SignThrows(tokenId, chainId) ==
    \/ BigIntThrows(tokenId)
    \/ BigIntThrows(chainId)
    \/ Uint256Throws(tokenId)
    \/ Uint256Throws(chainId)

\* The clock's milliseconds taken for seconds.
ExpiryAt_Millis(millis, expiryHours) == millis + expiryHours * 3600

\* Math.floor(Date.now() / 1000) + expiryHours * 3600
ExpiryAt(millis, expiryHours) == (millis \div 1000) + expiryHours * 3600

\* The seven values that are encoded, in this order.
AuthData(tokenId, clientAddress, indexLimit, expiry, chainId, identityRegistryAddress, signerAddress) ==
    <<tokenId.v, clientAddress, indexLimit, expiry, chainId.v, identityRegistryAddress, signerAddress>>

\* The types the seven values are encoded as.
AuthTypes ==
    <<"uint256", "address", "uint256", "uint256", "uint256", "address", "address">>

\* The length in bytes of an ABI word, of an address, of a signature.
WordLen == 32
AddressLen == 20
SignatureLen == 65

Pow256(k) == CASE k = 0 -> 1 [] k = 1 -> 256 [] k = 2 -> 65536 [] k = 3 -> 16777216

\* A byte of a number, and the i-th byte of an address.
NumByte(n) == <<"byte", n>>
AddressByte(address, i) == <<address, i>>

\* The packed encoding: an address takes its 20 bytes only.
AbiWord_Packed(type, value) ==
    IF type = "address"
    THEN [i \in 1..AddressLen |-> AddressByte(value, i)]
    ELSE [i \in 1..WordLen |->
            IF WordLen - i > 3 THEN NumByte(0)
            ELSE NumByte((value \div Pow256(WordLen - i)) % 256)]

\* The ABI encoding of one static value: a uint256 as 32 bytes, big-endian;
\* an address as its 20 bytes after 12 zero bytes.  (Numbers are below 2^31.)
AbiWord(type, value) ==
    IF type = "address"
    THEN [i \in 1..WordLen |->
            IF i <= WordLen - AddressLen THEN NumByte(0)
            ELSE AddressByte(value, i - (WordLen - AddressLen))]
    ELSE [i \in 1..WordLen |->
            IF WordLen - i > 3 THEN NumByte(0)
            ELSE NumByte((value \div Pow256(WordLen - i)) % 256)]

\* AbiCoder.encode(types, values) of static types: the words, in order.
RECURSIVE AbiEncode(_, _)
AbiEncode(types, values) ==
    IF types = <<>> THEN <<>>
    ELSE AbiWord(Head(types), Head(values)) \o AbiEncode(Tail(types), Tail(values))

Keccak256(bytes) == [keccak256 |-> bytes]

\* wallet.signMessage(hash): the personal-message signature of the signer.
SignMessage(signerAddress, messageHash) ==
    [signedBy |-> signerAddress, message |-> messageHash, prefix |-> "EIP-191"]

\* The 65 bytes of a signature.
SignatureBytes(signature) ==
    [i \in 1..SignatureLen |-> <<"signature", i, signature.signedBy, signature.message>>]

\* A hex string: the "0x" prefix, then the bytes.
Prefix0x == <<"0x">>
Hexlify(bytes) == <<Prefix0x>> \o bytes

\* hex.startsWith('0x') ? hex.slice(2) : hex
NoPrefix(hex) == IF hex /= <<>> /\ hex[1] = Prefix0x THEN Tail(hex) ELSE hex

\* ethers.getBytes(hex): the bytes of the hex string.
GetBytes(hex) == NoPrefix(hex)

\* signFeedbackAuth: the seven values and the signature of their hash.  The
\* expiry hours default to 24 when the caller passes none.
SignFeedbackAuth(tokenId, clientAddress, indexLimit, chainId, identityRegistryAddress, signerAddress, expiryHours) ==
    LET hours == IF expiryHours = Undef THEN ExpiryHoursDefault ELSE expiryHours.v
        expiry == ExpiryAt(now, hours)
        authData == AuthData(tokenId, clientAddress, indexLimit, expiry, chainId, identityRegistryAddress, signerAddress)
        messageHash == Keccak256(authData)
        signature == SignMessage(signerAddress, messageHash)
    IN  [authData |-> authData, signature |-> signature]

\* What signFeedbackAuth returns, as a hex string: '0x', the encoded values
\* without their prefix, the signature without its prefix.
FeedbackAuthHex(auth) ==
    LET authData == Hexlify(AbiEncode(AuthTypes, auth.authData))
        signature == Hexlify(SignatureBytes(auth.signature))
    IN  <<Prefix0x>> \o NoPrefix(authData) \o NoPrefix(signature)

\* ------------------------------------------------------------ the inputs

\* Agent identifiers given to giveFeedback.
IdSepolia42 == <<"1", "1", "1", "5", "5", "1", "1", "1", ":", "4", "2">>
IdSepolia7 == <<"1", "1", "1", "5", "5", "1", "1", "1", ":", "7">>
IdNoSeparator == <<"4", "2">>
IdEmptyToken == <<"1", "1", "1", "5", "5", "1", "1", "1", ":">>
IdThreeParts == <<"1", ":", "2", ":", "3">>
IdWordChain == <<"a", "b", "c", ":", "4", "2">>
IdWordToken == <<"1", "1", "1", "5", "5", "1", "1", "1", ":", "x">>
IdNegativeToken == <<"1", "1", "1", "5", "5", "1", "1", "1", ":", "-", "5">>

AgentIds ==
    {IdSepolia42, IdSepolia7, IdNoSeparator, IdEmptyToken, IdThreeParts,
     IdWordChain, IdWordToken, IdNegativeToken}

\* What the caller passes as signer: a private key string, an ethers
\* Wallet, or anything else.
SignerKinds == {"privateKey", "wallet", "other"}

\* The address of the caller's wallet.
WalletAddress == "0xC11e47"

\* Chain ids a ContractConfig may name: the configured ones and one that is
\* not configured.
ConfigChains == RegistryChains \cup {1}

TagHelpful == <<"h", "e", "l", "p", "f", "u", "l">>
TagFast == <<"f", "a", "s", "t">>

ParamsPlain ==
    [score |-> Tenths(970), tags |-> <<TagHelpful, TagFast>>,
     skill |-> Undef, context |-> Undef, task |-> Undef, capability |-> Undef,
     name |-> Undef, proofOfPayment |-> Undef, extra |-> EmptyObject]

FeedbackInputs == {ParamsPlain}

\* Tags longer than 32 bytes: 34 one-byte characters, and 31 one-byte
\* characters followed by a two-byte one.
TagLong == [i \in 1..34 |-> IF i = 1 THEN "L" ELSE IF i = 33 THEN "y" ELSE "x"]
TagAccent == [i \in 1..32 |-> IF i = 32 THEN "e_acute" ELSE "a"]
TagThird == <<"t", "h", "i", "r", "d">>
TagNul == <<"NUL">>

\* extra overrides the computed score and createdAt.
ParamsExtraWins ==
    [ParamsPlain EXCEPT !.score = Tenths(30),
        !.extra = [score |-> Num(99), createdAt |-> Str(<<"caller">>)]]

\* Optional fields given as null or as values.
ParamsNulls ==
    [ParamsPlain EXCEPT !.skill = Null, !.task = Str(<<"summarize">>),
        !.context = Obj([session |-> Str(<<"s1">>)])]

\* extra carries a null and an undefined value.
ParamsExtraNull ==
    [ParamsPlain EXCEPT !.extra = [note |-> Null, skill |-> Undef]]

ParamsNoScore == [ParamsPlain EXCEPT !.score = Undef, !.tags = <<>>]
ParamsHalf == [ParamsPlain EXCEPT !.score = Tenths(965)]
ParamsOver == [ParamsPlain EXCEPT !.score = Tenths(1500)]
ParamsNegative == [ParamsPlain EXCEPT !.score = Tenths(0 - 50)]

ParamsThreeTags == [ParamsPlain EXCEPT !.tags = <<TagHelpful, TagFast, TagThird>>]
ParamsLongTags == [ParamsPlain EXCEPT !.tags = <<TagLong, TagAccent>>]
ParamsEmptyFirst == [ParamsPlain EXCEPT !.tags = <<<<>>, TagFast>>]
ParamsEmptySecond == [ParamsPlain EXCEPT !.tags = <<TagHelpful, <<>>>>]
ParamsNulTag == [ParamsPlain EXCEPT !.tags = <<TagHelpful, TagNul>>]

\* extra carries its own tag1 and feedbackAuth, and its own null score.
ParamsExtraTag ==
    [ParamsPlain EXCEPT !.extra = [tag1 |-> Str(TagThird), feedbackAuth |-> Str(<<"caller">>)]]
ParamsExtraScoreNull == [ParamsPlain EXCEPT !.extra = [score |-> Null]]

\* The feedbackParams a single call is given.
SingleCallInputs ==
    {ParamsPlain, ParamsExtraWins, ParamsExtraTag, ParamsExtraScoreNull,
     ParamsNulls, ParamsExtraNull, ParamsNoScore,
     ParamsHalf, ParamsOver, ParamsNegative, ParamsThreeTags, ParamsLongTags,
     ParamsEmptyFirst, ParamsEmptySecond, ParamsNulTag}

\* Token ids for which the registry keeps a last index.
Tokens == {42, 7}

\* -------------------------------------------------------------- the state

VARIABLES
    contractConfig,  \* the ContractConfig every call is given
    run,             \* per call of giveFeedback: its locals and its history
    lastIndex,       \* registry: last feedback index of (token, WalletAddress)
    chain,           \* registry: the feedback accepted so far, in order
    signed,          \* the calls of signFeedbackAuth made on their own
    canon,           \* the records hashed on their own
    read,            \* a call of IPFSClient.get and its gateway fetches
    crawl,           \* a call of the EndpointCrawler and its requests
    parsed,          \* replies given to _jsonRpcCall on its own
    extracted,       \* documents given to _extractList on its own
    task,            \* a call of executeTaskWithFeedback
    query,           \* a query of the subgraph
    both             \* the two crawlers called with the same remote

vars == <<contractConfig, run, lastIndex, chain, now, signed, canon, read, crawl, parsed, extracted, task, query, both>>

\* What a call of giveFeedback leaves alone.
besides == <<now, signed, canon, read, crawl, parsed, extracted, task, query, both>>

\* What the operations made on their own leave alone.
pipeline == <<contractConfig, run, lastIndex, chain>>

\* What the operations told apart below leave alone when another one runs.
apart == <<extracted, task, query, both>>

\* None of them runs.
NoneApart == extracted = <<>> /\ task = <<>> /\ query = <<>> /\ both = <<>>

\* No operation is made on its own.
NoneAlone == signed = <<>> /\ canon = <<>> /\ read = <<>> /\ crawl = <<>> /\ parsed = <<>> /\ NoneApart

\* What the operations other than the crawler's leave alone.
crawling == <<crawl, parsed>>

\* The crawler is not called.
NoCrawl == crawl = <<>> /\ parsed = <<>> /\ NoneApart

\* No call of giveFeedback is made.
NoPipeline ==
    /\ contractConfig = [chainId |-> 11155111, pinataJwt |-> FALSE]
    /\ run = [r \in {} |-> 0]
    /\ lastIndex = [t \in {} |-> 0]
    /\ chain = <<>>

ZeroHash == [zero32 |-> TRUE]
NoUri == <<>>
NoAuth == [authData |-> <<>>, signature |-> <<>>]

\* Errors that end a call, by the place that throws them.
UnsupportedNetwork == "No default registries found for chainId"
InvalidIdentifier == "Invalid agentId format. Expected chainId:tokenId"
UnsupportedSigner == "Unsupported signer type"
InvalidIdentifierInPrepare == "Invalid agentId format in prepareFeedback"
EncodingError == "RangeError: value cannot be encoded"
SubmissionRejected == "giveFeedback call rejected by the registry"
ConfirmationTimeout == "tx.wait() failed"

\* A call of giveFeedback that has not been made.
NoCall ==
    [pc |-> "unused", agentId |-> <<>>, params |-> ParamsPlain,
     identityRegistryAddress |-> "", reputationRegistryAddress |-> "",
     chainId |-> NaN, tokenId |-> NaN, clientAddress |-> "",
     feedbackIndex |-> 0, feedbackFile |-> EmptyObject, feedbackAuth |-> NoAuth,
     feedbackUri |-> NoUri, feedbackHash |-> ZeroHash,
     tx |-> <<>>, result |-> <<>>, error |-> "", failedAt |-> "",
     stages |-> <<>>, readOutcome |-> "none", readValue |-> 0, reads |-> 0,
     uploadOutcome |-> "none", uploads |-> 0, signs |-> 0,
     submitted |-> <<>>, collided |-> FALSE, waits |-> 0]

\* giveFeedback has been called with these feedbackParams.
Called(agentId, params) ==
    [NoCall EXCEPT !.pc = "lookup", !.agentId = agentId, !.params = params]

\* One call of giveFeedback, with any identifier and any configuration,
\* against a registry with any last index.
Init ==
    /\ contractConfig \in [chainId : ConfigChains, pinataJwt : BOOLEAN]
    /\ \E id \in AgentIds, fp \in SingleCallInputs :
          run = [r \in Runs |-> IF r = 1 THEN Called(id, fp) ELSE NoCall]
    /\ lastIndex \in [Tokens -> 0..MaxInitIndex]
    /\ chain = <<>>
    /\ now = ClockSeconds * 1000
    /\ NoneAlone

\* NRuns interleaved calls of giveFeedback for the same agent by the same
\* wallet, on a configured chain.
InitInterleaved ==
    /\ contractConfig \in [chainId : {11155111}, pinataJwt : BOOLEAN]
    /\ \E fp \in FeedbackInputs :
          run = [r \in Runs |-> Called(IdSepolia42, fp)]
    /\ \E last \in 0..MaxInitIndex :
          lastIndex = [t \in Tokens |-> IF t = 42 THEN last ELSE 0]
    /\ chain = <<>>
    /\ now = ClockSeconds * 1000
    /\ NoneAlone

\* The call leaves stage `stage` with the error `err` thrown to its caller.
Throw(r, stage, err) ==
    [run[r] EXCEPT !.pc = "failed", !.error = err, !.failedAt = stage,
                   !.stages = Append(@, stage)]

\* The call `rec` has run stage `stage` and goes on at `next`.
Enter(rec, stage, next) ==
    [rec EXCEPT !.pc = next, !.stages = Append(@, stage)]

\* The order the pipeline's description gives: the upload before the
\* authorization.
StageAfter_UploadFirst(pc) ==
    CASE pc = "lookup" -> "parse"
      [] pc = "parse" -> "wallet"
      [] pc = "wallet" -> "resolve"
      [] pc = "resolve" -> "build"
      [] pc = "build" -> "upload"
      [] pc = "upload" -> "sign"
      [] pc = "sign" -> "submit"
      [] pc = "submit" -> "wait"
      [] pc = "wait" -> "done"

\* The order of giveFeedback's statements: the place the call goes on at
\* after each of its steps.
StageAfter(pc) ==
    CASE pc = "lookup" -> "parse"
      [] pc = "parse" -> "wallet"
      [] pc = "wallet" -> "resolve"
      [] pc = "resolve" -> "build"
      [] pc = "build" -> "sign"
      [] pc = "sign" -> "upload"
      [] pc = "upload" -> "submit"
      [] pc = "submit" -> "wait"
      [] pc = "wait" -> "done"

\* The registries of the configured chain are looked up.
LookupRegistries(r) ==
    /\ run[r].pc = "lookup"
    /\ LET defaultRegistries == RegistriesOf(contractConfig.chainId)
       IN  run' = [run EXCEPT ![r] =
              IF defaultRegistries.IDENTITY = "" \/ defaultRegistries.REPUTATION = ""
              THEN Throw(r, "LookupRegistries", UnsupportedNetwork)
              ELSE Enter([@ EXCEPT
                            !.identityRegistryAddress = defaultRegistries.IDENTITY,
                            !.reputationRegistryAddress = defaultRegistries.REPUTATION],
                         "LookupRegistries", StageAfter("lookup"))]
    /\ UNCHANGED <<contractConfig, lastIndex, chain, besides>>

\* Whether giveFeedback refuses the identifier.
IdentifierRejected(agentId) ==
    LET agentIdParts == Split(agentId, ":")
    IN  \/ Len(agentIdParts) /= 2
        \/ agentIdParts[1] = <<>>
        \/ agentIdParts[2] = <<>>

\* The agent identifier is split and its two parts are parsed.
ParseIdentifier(r) ==
    /\ run[r].pc = "parse"
    /\ LET agentIdParts == Split(run[r].agentId, ":")
       IN  run' = [run EXCEPT ![r] =
              IF IdentifierRejected(run[r].agentId)
              THEN Throw(r, "ParseIdentifier", InvalidIdentifier)
              ELSE Enter([@ EXCEPT !.chainId = ParseInt(agentIdParts[1]),
                                   !.tokenId = ParseInt(agentIdParts[2])],
                         "ParseIdentifier", StageAfter("parse"))]
    /\ UNCHANGED <<contractConfig, lastIndex, chain, besides>>

\* The wallet is made from the signer the caller passed.
SetupWallet(r) ==
    /\ run[r].pc = "wallet"
    /\ \E signer \in SignerKinds :
        run' = [run EXCEPT ![r] =
          IF signer \in {"privateKey", "wallet"}
          THEN Enter([@ EXCEPT !.clientAddress = WalletAddress],
                     "SetupWallet", StageAfter("wallet"))
          ELSE Throw(r, "SetupWallet", UnsupportedSigner)]
    /\ UNCHANGED <<contractConfig, lastIndex, chain, besides>>

\* --------------------------------------------------------- registry reads

LastIndexOf(tokenId) ==
    IF tokenId \in DOMAIN lastIndex THEN lastIndex[tokenId] ELSE 0

\* The last index itself, taken as the next one.
NextIndex_Same(last) == last

\* The index after the last one the registry reports.
NextIndex(last) == last + 1

\* The index assumed when the read throws.
IndexOnReadFailure == 1

\* getLastIndex is not sent when its arguments cannot be converted or
\* encoded: the exception is raised, and caught, before any request.
ReadArgumentsThrow(tokenId) == BigIntThrows(tokenId) \/ Uint256Throws(tokenId)

\* The feedback index is resolved: last index + 1, or 1 when the read throws.
ResolveIndex(r) ==
    /\ run[r].pc = "resolve"
    /\ IF ReadArgumentsThrow(run[r].tokenId)
       THEN run' = [run EXCEPT ![r] =
                Enter([@ EXCEPT !.feedbackIndex = IndexOnReadFailure,
                                !.readOutcome = "threw"],
                      "ResolveIndex", StageAfter("resolve"))]
       ELSE \/ run' = [run EXCEPT ![r] =
                  Enter([@ EXCEPT
                           !.feedbackIndex = NextIndex(LastIndexOf(run[r].tokenId.v)),
                           !.readOutcome = "ok",
                           !.readValue = LastIndexOf(run[r].tokenId.v),
                           !.reads = @ + 1],
                        "ResolveIndex", StageAfter("resolve"))]
            \/ run' = [run EXCEPT ![r] =
                  Enter([@ EXCEPT !.feedbackIndex = IndexOnReadFailure,
                                  !.readOutcome = "failed",
                                  !.reads = @ + 1],
                        "ResolveIndex", StageAfter("resolve"))]
    /\ UNCHANGED <<contractConfig, lastIndex, chain, besides>>

\* The feedback file is prepared.
BuildRecord(r) ==
    /\ run[r].pc = "build"
    /\ run' = [run EXCEPT ![r] =
          IF PrepareThrows(run[r].agentId)
          THEN Throw(r, "BuildRecord", InvalidIdentifierInPrepare)
          ELSE Enter([@ EXCEPT !.feedbackFile =
                        PrepareFeedback(run[r].agentId, run[r].clientAddress,
                                        run[r].chainId,
                                        run[r].identityRegistryAddress,
                                        run[r].params,
                                        Str(<<"ISO", now>>))],
                     "BuildRecord", StageAfter("build"))]
    /\ UNCHANGED <<contractConfig, lastIndex, chain, besides>>

\* The authorization token is signed and written into the feedback file.
ComputeAuthorization(r) ==
    /\ run[r].pc = "sign"
    /\ run' = [run EXCEPT ![r] =
          IF SignThrows(run[r].tokenId, run[r].chainId)
          THEN Throw(r, "ComputeAuthorization", EncodingError)
          ELSE LET feedbackAuth ==
                       SignFeedbackAuth(run[r].tokenId, run[r].clientAddress,
                                        run[r].feedbackIndex, run[r].chainId,
                                        run[r].identityRegistryAddress,
                                        WalletAddress, Undef)
               IN  Enter([@ EXCEPT
                            !.feedbackAuth = feedbackAuth,
                            !.feedbackFile =
                                ObjectAssign(@, [feedbackAuth |-> Hex(feedbackAuth)]),
                            !.signs = @ + 1],
                         "ComputeAuthorization", StageAfter("sign"))]
    /\ UNCHANGED <<contractConfig, lastIndex, chain, besides>>

\* ---------------------------------------------------------- content store

\* The content id the store gives a pinned document.
Cid(document) == [cid |-> document]

IpfsUri(cid) == <<"ipfs://", cid>>

\* An object as JavaScript keeps it: its <<key, value>> entries in the order
\* the keys were inserted.  A value that is such an object is tagged.
Ordered(entries) == [t |-> "entries", v |-> entries]

\* Object.keys(o): the keys in insertion order.
ObjectKeys(entries) == [i \in 1..Len(entries) |-> entries[i][1]]

HasKey(entries, k) == \E i \in 1..Len(entries) : entries[i][1] = k

ValueOf(entries, k) ==
    entries[CHOOSE i \in 1..Len(entries) : entries[i][1] = k][2]

\* The keys of the feedback file in the order of their UTF-16 code units,
\* which is how sort() compares strings.
CodeUnitOrder ==
    <<"agentId", "agentRegistry", "capability", "clientAddress", "context",
      "createdAt", "feedbackAuth", "name", "note", "proofOfPayment", "score",
      "session", "skill", "tag1", "tag2", "task">>

KeyRank(k) == CHOOSE i \in 1..Len(CodeUnitOrder) : CodeUnitOrder[i] = k

KeyLess(a, b) == KeyRank(a) < KeyRank(b)

RECURSIVE InsertKey(_, _)
InsertKey(sorted, k) ==
    IF sorted = <<>> THEN <<k>>
    ELSE IF KeyLess(k, Head(sorted)) THEN <<k>> \o sorted
    ELSE <<Head(sorted)>> \o InsertKey(Tail(sorted), k)

\* The keys left in the order they have.
SortKeys_Unsorted(keys) == keys

\* Array.prototype.sort() of distinct keys.
RECURSIVE SortKeys(_)
SortKeys(keys) ==
    IF keys = <<>> THEN <<>>
    ELSE InsertKey(SortKeys(Tail(keys)), Head(keys))

\* JSON.stringify(value, propertyList): of an object, the members whose key
\* is in the list and whose value is not undefined, in the order of the
\* list; the list applies to the nested objects as well.
RECURSIVE JsonStringify(_, _)
RECURSIVE JsonMembers(_, _, _)
JsonMembers(entries, rest, propertyList) ==
    IF rest = <<>> THEN <<>>
    ELSE LET k == Head(rest)
             member ==
                 IF HasKey(entries, k) /\ ValueOf(entries, k) /= Undef
                 THEN <<<<k, JsonStringify(ValueOf(entries, k), propertyList)>>>>
                 ELSE <<>>
         IN  member \o JsonMembers(entries, Tail(rest), propertyList)

JsonStringify(value, propertyList) ==
    IF value.t = "entries"
    THEN [t |-> "json", v |-> JsonMembers(value.v, propertyList, propertyList)]
    ELSE value

\* JSON.stringify(file, Object.keys(file).sort())
SortedJsonOf(entries) ==
    JsonStringify(Ordered(entries), SortKeys(ObjectKeys(entries)))

\* The order giveFeedback inserts the keys of the feedback file in: the
\* order of prepareFeedback's literal, then the keys only extra has; and
\* the order of the key of a context.
FieldOrder ==
    <<"agentRegistry", "agentId", "clientAddress", "createdAt", "feedbackAuth",
      "score", "tag1", "tag2", "skill", "context", "task", "capability",
      "name", "proofOfPayment", "note", "session">>

\* The feedback file with its keys in the order they were inserted.
RECURSIVE EntriesOf(_)
EntriesOf(file) ==
    LET keys == SelectSeq(FieldOrder, LAMBDA k : k \in DOMAIN file)
    IN  [i \in 1..Len(keys) |->
            <<keys[i],
              IF file[keys[i]].t = "obj"
              THEN Ordered(EntriesOf(file[keys[i]].v))
              ELSE file[keys[i]]>>]

\* The text of the feedback file that is hashed.
SortedJson(file) == SortedJsonOf(EntriesOf(file))

\* The upload succeeded and only the reference is set.
UploadSucceeded_NoHash(r) ==
    Enter([run[r] EXCEPT
             !.feedbackUri = IpfsUri(Cid(run[r].feedbackFile)),
             !.uploadOutcome = "ok",
             !.uploads = @ + 1],
          "UploadContent", StageAfter("upload"))

\* The upload succeeded: the reference and the hash of the file are set.
UploadSucceeded(r) ==
    Enter([run[r] EXCEPT
             !.feedbackUri = IpfsUri(Cid(run[r].feedbackFile)),
             !.feedbackHash = Keccak256(SortedJson(run[r].feedbackFile)),
             !.uploadOutcome = "ok",
             !.uploads = @ + 1],
          "UploadContent", StageAfter("upload"))

\* The upload threw and the exception is not caught.
UploadFailed_Throws(r) ==
    [Throw(r, "UploadContent", "upload failed") EXCEPT
        !.uploadOutcome = "failed", !.uploads = @ + 1]

\* The upload threw: the exception is caught and logged, the reference and
\* the hash keep their initial values.
UploadFailed(r) ==
    Enter([run[r] EXCEPT !.uploadOutcome = "failed", !.uploads = @ + 1],
          "UploadContent", StageAfter("upload"))

\* The feedback file is uploaded when a Pinata JWT is configured.
UploadContent(r) ==
    /\ run[r].pc = "upload"
    /\ IF ~contractConfig.pinataJwt
       THEN run' = [run EXCEPT ![r] =
                [@ EXCEPT !.pc = StageAfter("upload"), !.uploadOutcome = "skipped"]]
       ELSE \/ run' = [run EXCEPT ![r] = UploadSucceeded(r)]
            \/ run' = [run EXCEPT ![r] = UploadFailed(r)]
    /\ UNCHANGED <<contractConfig, lastIndex, chain, besides>>

\* ------------------------------------------------------------- submission

\* Number(x) of a value of the feedback file: the number itself, 0 for
\* null, NaN for undefined and for a text that is no number.
NumberOf(x) == IF x.t = "num" THEN x ELSE IF x.t = "null" THEN Num(0) ELSE NaN

\* The score sent on-chain.
ScoreArgument(feedbackFile) ==
    IF "score" \in DOMAIN feedbackFile /\ feedbackFile["score"] /= Undef
    THEN NumberOf(feedbackFile["score"])
    ELSE Num(0)

\* (tags && tags[i]) || ''
TagArgument(tags, i) == IF Len(tags) >= i THEN tags[i] ELSE <<>>

\* The arguments of the registry's giveFeedback.
SubmitArguments(rec) ==
    [tokenId |-> rec.tokenId.v,
     score |-> ScoreArgument(rec.feedbackFile),
     tag1 |-> StringToBytes32(TagArgument(rec.params.tags, 1)),
     tag2 |-> StringToBytes32(TagArgument(rec.params.tags, 2)),
     feedbackUri |-> rec.feedbackUri,
     feedbackHash |-> rec.feedbackHash,
     feedbackAuth |-> rec.feedbackAuth]

\* The registry accepts a feedback whose authorized index limit is greater
\* than the last index of the pair.
RegistryAccepts(indexLimit, last) == indexLimit > last

\* The registry accepted the call: the transaction is handed back.
SubmitAccepted(r, args) ==
    Enter([run[r] EXCEPT !.tx = <<"0xtx", Len(chain) + 1>>,
                         !.submitted = Append(@, args),
                         !.collided = ~RegistryAccepts(run[r].feedbackIndex,
                                                       LastIndexOf(run[r].tokenId.v))],
          "SubmitTransaction", StageAfter("submit"))

\* The rejection is caught and logged like a failed upload, and the call
\* goes on.
SubmitRejected_Swallowed(r, args) ==
    Enter([run[r] EXCEPT
             !.tx = <<"0xtx", 0>>,
             !.submitted = Append(@, args),
             !.collided = ~RegistryAccepts(run[r].feedbackIndex,
                                           LastIndexOf(run[r].tokenId.v))],
          "SubmitTransaction", StageAfter("submit"))

\* The rejected call is made again.
SubmitRejected_Retry(r, args) ==
    [run[r] EXCEPT !.submitted = Append(@, args),
                   !.stages = Append(@, "SubmitTransaction")]

\* The registry rejected the call: the error goes to the caller.
SubmitRejected(r, args) ==
    [Throw(r, "SubmitTransaction", SubmissionRejected) EXCEPT
        !.submitted = Append(@, args),
        !.collided = ~RegistryAccepts(run[r].feedbackIndex,
                                      LastIndexOf(run[r].tokenId.v))]

\* The feedback is sent to the registry.
SubmitTransaction(r) ==
    /\ run[r].pc = "submit"
    /\ LET args == SubmitArguments(run[r])
       IN  IF args.score.nan \/ args.score.v < 0
           THEN /\ run' = [run EXCEPT ![r] =
                        Throw(r, "SubmitTransaction", EncodingError)]
                /\ UNCHANGED <<lastIndex, chain>>
           ELSE \/ /\ RegistryAccepts(run[r].feedbackIndex,
                                      LastIndexOf(run[r].tokenId.v))
                   /\ run' = [run EXCEPT ![r] = SubmitAccepted(r, args)]
                   /\ chain' = Append(chain, [by |-> r, args |-> args])
                   /\ lastIndex' =
                         [t \in DOMAIN lastIndex |->
                            IF t = args.tokenId THEN lastIndex[t] + 1
                            ELSE lastIndex[t]]
                \/ /\ run' = [run EXCEPT ![r] = SubmitRejected(r, args)]
                   /\ UNCHANGED <<lastIndex, chain>>
    /\ UNCHANGED <<contractConfig, besides>>

\* ----------------------------------------------------------- confirmation

\* The result with the content reference left at its initial value.
FeedbackResult_NoUri(rec, receipt) ==
    [transactionHash |-> rec.tx,
     blockNumber |-> receipt.blockNumber,
     feedbackIndex |-> rec.feedbackIndex,
     feedbackFile |-> rec.feedbackFile,
     feedbackUri |-> NoUri]

\* The result with the index read from the registry again at the return,
\* after the submission has moved it.
FeedbackResult_IndexReread(rec, receipt) ==
    [transactionHash |-> rec.tx,
     blockNumber |-> receipt.blockNumber,
     feedbackIndex |-> NextIndex(LastIndexOf(rec.tokenId.v)),
     feedbackFile |-> rec.feedbackFile,
     feedbackUri |-> rec.feedbackUri]

\* What giveFeedback returns.
FeedbackResult(rec, receipt) ==
    [transactionHash |-> rec.tx,
     blockNumber |-> receipt.blockNumber,
     feedbackIndex |-> rec.feedbackIndex,
     feedbackFile |-> rec.feedbackFile,
     feedbackUri |-> rec.feedbackUri]

\* tx.wait() gave the receipt: giveFeedback returns.
WaitSucceeded(r) ==
    LET receipt == [blockNumber |-> run[r].tx[2]]
        waited == Enter([run[r] EXCEPT !.waits = @ + 1],
                        "AwaitConfirmation", StageAfter("wait"))
    IN  [waited EXCEPT !.result = <<FeedbackResult(run[r], receipt)>>,
                       !.stages = Append(@, "Done")]

\* The failed wait reported as a rejected submission.
WaitFailed_AsRejection(r) ==
    [Throw(r, "AwaitConfirmation", SubmissionRejected) EXCEPT !.waits = @ + 1]

\* tx.wait() threw: the error goes to the caller.
WaitFailed(r) ==
    [Throw(r, "AwaitConfirmation", ConfirmationTimeout) EXCEPT !.waits = @ + 1]

\* The confirmation of the transaction is awaited.
AwaitConfirmation(r) ==
    /\ run[r].pc = "wait"
    /\ \/ run' = [run EXCEPT ![r] = WaitSucceeded(r)]
       \/ run' = [run EXCEPT ![r] = WaitFailed(r)]
    /\ UNCHANGED <<contractConfig, lastIndex, chain, besides>>

\* ------------------------------------------------------ the specification

Next ==
    \E r \in Runs :
        \/ LookupRegistries(r)
        \/ ParseIdentifier(r)
        \/ SetupWallet(r)
        \/ ResolveIndex(r)
        \/ BuildRecord(r)
        \/ ComputeAuthorization(r)
        \/ UploadContent(r)
        \/ SubmitTransaction(r)
        \/ AwaitConfirmation(r)

Spec == Init /\ [][Next]_vars

SpecInterleaved == InitInterleaved /\ [][Next]_vars

\* ------------------------------------------------- signing, on its own

\* Most calls of signFeedbackAuth, and most half seconds the clock advances.
MaxSignings == 2
MaxTicks == 2

\* The arguments of signFeedbackAuth: the token, the index limit and the
\* expiry hours (undefined: the default) vary, the chain and the wallet are
\* fixed.
SignInputs ==
    [tokenId : {Num(42), Num(7)}, indexLimit : {1, 2},
     expiryHours : {Undef, Num(1)}]

InitSign ==
    /\ now = ClockSeconds * 1000
    /\ signed = <<>>
    /\ canon = <<>>
    /\ read = <<>>
    /\ NoCrawl
    /\ NoPipeline

\* Half a second passes.
Tick ==
    /\ now < ClockSeconds * 1000 + MaxTicks * 500
    /\ now' = now + 500
    /\ UNCHANGED <<signed, canon, read, pipeline, crawling, apart>>

\* signFeedbackAuth is called: the token it returns is kept with the time
\* of the call and its arguments.
SignToken ==
    /\ Len(signed) < MaxSignings
    /\ \E input \in SignInputs :
          LET auth == SignFeedbackAuth(input.tokenId, WalletAddress,
                                       input.indexLimit, Num(11155111),
                                       RegistriesOf(11155111).IDENTITY,
                                       WalletAddress, input.expiryHours)
          IN  signed' = Append(signed, [at |-> now, input |-> input,
                                        token |-> FeedbackAuthHex(auth)])
    /\ UNCHANGED <<now, canon, read, pipeline, crawling, apart>>

NextSign == Tick \/ SignToken

SpecSign == InitSign /\ [][NextSign]_vars

\* ------------------------------------------------- hashing, on its own

\* The number of keys of the records that are hashed.
MaxKeys == 3

\* The contexts: the same three members inserted in two orders, and the
\* first with another session.
ContextA ==
    Ordered(<<<<"agentId", Num(1)>>, <<"session", Str(<<"s1">>)>>,
              <<"score", Num(5)>>>>)
ContextB ==
    Ordered(<<<<"score", Num(5)>>, <<"agentId", Num(1)>>,
              <<"session", Str(<<"s1">>)>>>>)

ContextC ==
    Ordered(<<<<"agentId", Num(1)>>, <<"session", Str(<<"s2">>)>>,
              <<"score", Num(5)>>>>)

\* The members a record is built of, the first MaxKeys of them.
MembersOf(score, context) ==
    SubSeq(<<<<"score", score>>, <<"context", context>>,
             <<"agentId", Num(42)>>, <<"tag1", Str(TagHelpful)>>,
             <<"note", Null>>, <<"createdAt", Str(<<"ISO", 0>>)>>>>,
           1, MaxKeys)

\* The sequences that hold every element of the sequence `members` once.
OrdersOf(members) ==
    {order \in [1..Len(members) -> Range(members)] :
        \A i, j \in 1..Len(members) : order[i] = order[j] => i = j}

\* Records of two scores and the three contexts, their keys inserted in
\* every order.
HashedRecords ==
    UNION {OrdersOf(MembersOf(score, context)) :
             score \in {Num(97), Num(3)}, context \in {ContextA, ContextB, ContextC}}

InitHash ==
    /\ canon \in [records : HashedRecords \X HashedRecords,
                   hashes : {<<<<>>, <<>>>>}]
    /\ now = ClockSeconds * 1000
    /\ signed = <<>>
    /\ read = <<>>
    /\ NoCrawl
    /\ NoPipeline

\* One of the two records is serialized with its sorted keys and hashed.
HashRecord ==
    /\ \E i \in 1..2 :
          /\ canon.hashes[i] = <<>>
          /\ canon' = [canon EXCEPT !.hashes[i] =
                          <<Keccak256(SortedJsonOf(canon.records[i]))>>]
    /\ UNCHANGED <<now, signed, read, pipeline, crawling, apart>>

NextHash == HashRecord

SpecHash == InitHash /\ [][NextHash]_vars

\* ------------------------------------------------------- reading content

\* The number of fallback gateways.
NFallback == 2

\* A gateway: its base URL, which may end with a '/'.
Gateway(base, slash) == [base |-> base, slash |-> slash]

DefaultGateway == Gateway("https://gateway.pinata.cloud", FALSE)

\* IPFS_GATEWAYS: the fixed list of fallback gateways.
IPFS_GATEWAYS == [i \in 1..NFallback |-> Gateway(<<"fallback", i>>, FALSE)]

\* The gateway a configuration names: none, or one with a trailing '/'.
ConfiguredGateways == {Undef, Gateway("https://my.gateway", TRUE)}

\* What get is called with: a content id, or a URL of one.
ContentId == <<"Q", "m", "1">>
ContentRefs == {ContentId, <<"ipfs://">> \o ContentId}

\* cid.startsWith('ipfs://') ? cid.slice(7) : cid
StripScheme(cid) == IF cid /= <<>> /\ cid[1] = "ipfs://" THEN Tail(cid) ELSE cid

\* `${gateway.replace(/\/$/, '')}/ipfs/${cid}`
GatewayUrl(gateway, cid) == <<gateway.base, "/ipfs/", cid>>

\* The URLs get fetches: the configured gateway or the default one first,
\* then the fallback gateways.
GatewayUrls(pinataGateway, cid) ==
    LET gateways ==
            <<IF pinataGateway /= Undef THEN pinataGateway ELSE DefaultGateway>>
                \o IPFS_GATEWAYS
    IN  [i \in 1..Len(gateways) |-> GatewayUrl(gateways[i], cid)]

\* The body a gateway serves.
BodyOf(url) == [servedBy |-> url[1], cid |-> url[3]]

ContentUnavailable == "Failed to retrieve data from all IPFS gateways"

Fulfilled(value) == [status |-> "fulfilled", value |-> value]
Rejected(reason) == [status |-> "rejected", reason |-> reason]

\* A fetch that was not made, that is in flight, whose response has come
\* and whose body is being read.
NotIssued == [status |-> "none"]
InFlight == [status |-> "pending"]
ReadingBody == [status |-> "body"]

IsSettled(fetch) == fetch.status \in {"fulfilled", "rejected"}

\* get(cid) has been called.
InitRead ==
    /\ \E pinataGateway \in ConfiguredGateways, cid \in ContentRefs :
          read = [pc |-> "called", pinataGateway |-> pinataGateway, cid |-> cid,
                  gateways |-> <<>>, promises |-> <<>>, settled |-> <<>>,
                  result |-> <<>>]
    /\ now = ClockSeconds * 1000
    /\ signed = <<>>
    /\ canon = <<>>
    /\ NoCrawl
    /\ NoPipeline

\* The scheme is cut off the content id and the list of URLs is made.
ListGateways ==
    /\ read.pc = "called"
    /\ LET cid == StripScheme(read.cid)
           gateways == GatewayUrls(read.pinataGateway, cid)
       IN  read' = [read EXCEPT !.pc = "mapping", !.cid = cid,
                                !.gateways = gateways,
                                !.promises = [i \in 1..Len(gateways) |-> NotIssued]]
    /\ UNCHANGED <<now, signed, canon, pipeline, crawling, apart>>

\* get suspends after the first fetch it has issued.
PcAfterIssue_AwaitEach(issued, gateways) == "awaiting"

\* gateways.map(...) calls the next function when one has issued its fetch,
\* and get awaits when the last one has.
PcAfterIssue(issued, gateways) ==
    IF issued < Len(gateways) THEN "mapping" ELSE "awaiting"

Issued(promises) == Cardinality({i \in DOMAIN promises : promises[i] /= NotIssued})

\* The map calls the function of the next gateway of the list, which runs
\* up to its await: the fetch is issued.
IssueFetch ==
    /\ read.pc = "mapping"
    /\ LET i == Issued(read.promises) + 1
       IN  read' = [read EXCEPT !.promises[i] = InFlight,
                                !.pc = PcAfterIssue(i, read.gateways)]
    /\ UNCHANGED <<now, signed, canon, pipeline, crawling, apart>>

\* The settlement of the promise of gateway i, with the number of fetches
\* issued by then.
Settle(i, outcome) ==
    [read EXCEPT !.promises[i] = outcome,
                 !.settled = Append(@, [gateway |-> i,
                                        issued |-> Issued(read.promises)])]

\* A fetch completes while get is suspended: with an ok response, whose
\* body is then read; with another response or with an error (the timeout
\* among them), which reject the promise.
Respond(i) ==
    /\ read.pc = "awaiting"
    /\ read.promises[i] = InFlight
    /\ \/ read' = [read EXCEPT !.promises[i] = ReadingBody]
       \/ read' = Settle(i, Rejected("HTTP status"))
       \/ read' = Settle(i, Rejected("fetch failed"))
    /\ UNCHANGED <<now, signed, canon, pipeline, crawling, apart>>

\* response.text() completes: the promise is fulfilled with the body, or
\* rejected.
ReadBody(i) ==
    /\ read.pc = "awaiting"
    /\ read.promises[i] = ReadingBody
    /\ \/ read' = Settle(i, Fulfilled(BodyOf(read.gateways[i])))
       \/ read' = Settle(i, Rejected("body failed"))
    /\ UNCHANGED <<now, signed, canon, pipeline, crawling, apart>>

\* The results are ready when one promise has settled.
AllSettled_Any(promises) == \E i \in DOMAIN promises : IsSettled(promises[i])

\* Promise.allSettled(promises) resolves when every promise has settled.
AllSettled(promises) == \A i \in DOMAIN promises : IsSettled(promises[i])

\* The value of the promise that settled first, when it was fulfilled.
FirstFulfilled_BySettlement(results, settled) ==
    LET fulfilled == SelectSeq(settled,
                               LAMBDA e : results[e.gateway].status = "fulfilled")
    IN  IF fulfilled = <<>> THEN <<>> ELSE <<results[fulfilled[1].gateway].value>>

\* for (const result of results) if (result.status === 'fulfilled') return
\* result.value: the value of the first fulfilled result of the list.
FirstFulfilled(results, settled) ==
    LET fulfilled == {i \in DOMAIN results : results[i].status = "fulfilled"}
    IN  IF fulfilled = {} THEN <<>>
        ELSE <<results[CHOOSE i \in fulfilled : \A j \in fulfilled : i <= j].value>>

\* get throws when one result of the list is rejected.
SelectResult_AnyRejectionFails ==
    /\ read.pc = "awaiting"
    /\ AllSettled(read.promises)
    /\ LET found == FirstFulfilled(read.promises, read.settled)
           failed == \E i \in DOMAIN read.promises :
                         read.promises[i].status = "rejected"
           outcome == IF failed THEN Rejected(ContentUnavailable)
                      ELSE Fulfilled(found[1])
       IN  read' = [read EXCEPT
                      !.pc = IF failed THEN "failed" ELSE "returned",
                      !.result = <<[outcome |-> outcome,
                                    settled |-> Len(read.settled)]>>]
    /\ UNCHANGED <<now, signed, canon, pipeline, crawling, apart>>

\* get goes on when allSettled has resolved: it returns the first fulfilled
\* value of the list, or throws when there is none.
SelectResult ==
    /\ read.pc = "awaiting"
    /\ AllSettled(read.promises)
    /\ LET found == FirstFulfilled(read.promises, read.settled)
           outcome == IF found = <<>> THEN Rejected(ContentUnavailable)
                      ELSE Fulfilled(found[1])
       IN  read' = [read EXCEPT
                      !.pc = IF found = <<>> THEN "failed" ELSE "returned",
                      !.result = <<[outcome |-> outcome,
                                    settled |-> Len(read.settled)]>>]
    /\ UNCHANGED <<now, signed, canon, pipeline, crawling, apart>>

NextRead ==
    \/ ListGateways
    \/ IssueFetch
    \/ \E i \in 1..(NFallback + 1) : Respond(i) \/ ReadBody(i)
    \/ SelectResult

SpecRead == InitRead /\ [][NextRead]_vars

\* --------------------------------------------------- the endpoint crawler
\*
\* Two EndpointCrawler classes are among the sources: the one of
\* src/unnamed/part_002, whose _fetchViaJsonRpc posts JSON-RPC requests to
\* three paths, and the one of src/unnamed/part_001, whose _fetchViaJsonRpc
\* gets <endpoint>/tools, /resources and /prompts.  The rest of the two
\* classes is the same code.

\* A JSON array, and the outcome of an expression that threw.
Arr(items) == [t |-> "array", v |-> items]
Thrown == [t |-> "thrown"]

\* x && typeof x === 'object'
IsObject(x) == x.t \in {"entries", "array"}

\* Array.isArray(x)
IsArray(x) == x.t = "array"

\* if (x): false for undefined, null, 0, NaN and ''.
Truthy(x) ==
    CASE x.t \in {"undef", "null"} -> FALSE
      [] x.t = "num" -> ~x.nan /\ x.v /= 0
      [] x.t = "str" -> x.v /= ""
      [] OTHER -> TRUE

\* key in x throws a TypeError when x is not an object.
InThrows(x) == ~IsObject(x)

\* key in x, for an object x; the keys of the model are never array indices.
KeyIn(key, x) == x.t = "entries" /\ HasKey(x.v, key)

\* x[key] throws a TypeError when x is null or undefined.
GetThrows(x) == x.t \in {"undef", "null"}

\* x[key], for x neither null nor undefined.
Get(x, key) == IF KeyIn(key, x) THEN ValueOf(x.v, key) ELSE Undef

\* The fields _extractList takes the name of an object from, and the
\* containers it looks into.
NameFields == <<"name", "id", "identifier", "title">>
ContainerKeys == <<"capabilities", "abilities", "features">>

\* What one item of a list contributes to the result of _extractList: the
\* item when it is a string, the first of its name fields that is a string
\* when it is an object, nothing otherwise.
ItemNames(item) ==
    IF item.t = "str" THEN <<item>>
    ELSE IF IsObject(item)
    THEN LET named == {i \in DOMAIN NameFields :
                          /\ KeyIn(NameFields[i], item)
                          /\ Get(item, NameFields[i]).t = "str"}
         IN  IF named = {} THEN <<>>
             ELSE <<Get(item, NameFields[CHOOSE i \in named : \A j \in named : i <= j])>>
    ELSE <<>>

\* for (const item of list) ... result.push(...): the names of the items in
\* the order of the list.
RECURSIVE NamesOf(_)
NamesOf(items) ==
    IF Len(items) = 0 THEN <<>> ELSE ItemNames(Head(items)) \o NamesOf(Tail(items))

\* The list under a key of an object, when there is an array under it.
ListUnder(data, key) ==
    IF KeyIn(key, data) /\ IsArray(Get(data, key)) THEN NamesOf(Get(data, key).v)
    ELSE <<>>

\* _extractList(data, key) throws at its first test, key in data, when data
\* is not an object.
ExtractListThrows(data) == InThrows(data)

\* _extractList with a loop over the containers that stops at the first
\* container that has the key, whatever its list gives.
ExtractList_FirstWithKey(data, key) ==
    LET top == ListUnder(data, key)
        Has(c) == KeyIn(c, data) /\ IsObject(Get(data, c)) /\ KeyIn(key, Get(data, c))
        found == {i \in DOMAIN ContainerKeys : Has(ContainerKeys[i])}
    IN  IF Len(top) > 0 THEN top
        ELSE IF found = {} THEN <<>>
        ELSE ListUnder(Get(data, ContainerKeys[CHOOSE i \in found : \A j \in found : i <= j]), key)

\* _extractList(data, key): the list under the key at the top level and,
\* when that gives nothing, the list under the key of the first container
\* that gives something.
ExtractList(data, key) ==
    LET top == ListUnder(data, key)
        Nested(c) == IF KeyIn(c, data) /\ IsObject(Get(data, c))
                     THEN ListUnder(Get(data, c), key) ELSE <<>>
        found == {i \in DOMAIN ContainerKeys : Len(Nested(ContainerKeys[i])) > 0}
    IN  IF Len(top) > 0 THEN top
        ELSE IF found = {} THEN <<>>
        ELSE Nested(ContainerKeys[CHOOSE i \in found : \A j \in found : i <= j])

\* The name _fetchViaJsonRpc pushes for one item of the list of a reply:
\* tool.name and prompt.name when the item is an object with a name,
\* resource.uri || resource.name when that is truthy.
RpcItemNames(item, key) ==
    IF ~IsObject(item) THEN <<>>
    ELSE IF key = "resources"
    THEN LET name == IF Truthy(Get(item, "uri")) THEN Get(item, "uri")
                     ELSE Get(item, "name")
         IN  IF Truthy(name) THEN <<name>> ELSE <<>>
    ELSE IF KeyIn("name", item) THEN <<Get(item, "name")>> ELSE <<>>

RECURSIVE RpcNamesOf(_, _)
RpcNamesOf(items, key) ==
    IF Len(items) = 0 THEN <<>>
    ELSE RpcItemNames(Head(items), key) \o RpcNamesOf(Tail(items), key)

\* The names _fetchViaJsonRpc extracts from what a listing call returned:
\* those of the array under the key, when the reply is an object with one.
RpcNames(reply, key) ==
    IF IsObject(reply) /\ KeyIn(key, reply) /\ IsArray(Get(reply, key))
    THEN RpcNamesOf(Get(reply, key).v, key)
    ELSE <<>>

\* A JSON text: one that JSON.parse turns into a value, or one it throws on.
Parsable(value) == [parses |-> TRUE, value |-> value]
Unparsable == [parses |-> FALSE, value |-> Undef]

\* The lines of a body: 'event: message', 'data: ' followed by a JSON text,
\* a JSON text on its own, or an empty line.
EventLine == [kind |-> "event", json |-> Unparsable]
DataLine(json) == [kind |-> "data", json |-> json]
JsonLine(json) == [kind |-> "json", json |-> json]
BlankLine == [kind |-> "blank", json |-> Unparsable]

\* A response: response.ok, its content-type header and the lines of its
\* body.
Response(ok, contentType, text) == [ok |-> ok, contentType |-> contentType, text |-> text]

\* JSON.parse(text): the value in a one-element sequence, or the empty
\* sequence when it throws.  A body parses when it is one JSON text, with
\* empty lines around it or without.
JsonParse(text) ==
    LET written == SelectSeq(text, LAMBDA line : line.kind /= "blank")
    IN  IF Len(written) = 1 /\ written[1].kind = "json" /\ written[1].json.parses
        THEN <<written[1].json.value>> ELSE <<>>

\* data.result !== undefined ? data.result : data, which throws when data
\* is null.
ResultOrWhole(data) ==
    IF GetThrows(data) THEN Thrown
    ELSE IF Get(data, "result") /= Undef THEN Get(data, "result") ELSE data

\* _parseSseResponse(sseText): the payload of the first line that starts
\* with 'data: ', its result field when it has one; null when there is no
\* such line or anything throws.
ParseSseResponse(sseText) ==
    LET dataLines == SelectSeq(sseText, LAMBDA line : line.kind = "data")
    IN  IF dataLines = <<>> THEN Null
        ELSE LET json == dataLines[1].json
             IN  IF ~json.parses THEN Null
                 ELSE IF ResultOrWhole(json.value) = Thrown THEN Null
                 ELSE ResultOrWhole(json.value)

\* contentType.includes('text/event-stream') || text.includes('event: message')
IsSse(response) ==
    \/ response.contentType = "text/event-stream"
    \/ \E i \in DOMAIN response.text : response.text[i].kind = "event"

\* What a fetch settles with: a response, or a rejection (a transport
\* error, or the abort of its timeout).
NoResponse == Response(FALSE, "", <<>>)
Answered(response) == [kind |-> "response", response |-> response]
FetchFailed == [kind |-> "error", response |-> NoResponse]
TimedOut == [kind |-> "timeout", response |-> NoResponse]

\* _jsonRpcCall of src/unnamed/part_001, given what its fetch settled with:
\* as the one of part_002, but the parsed body is returned whole.
JsonRpcCall_Whole(outcome) ==
    IF outcome.kind /= "response" THEN Null
    ELSE IF ~outcome.response.ok THEN Null
    ELSE IF IsSse(outcome.response) /\ Truthy(ParseSseResponse(outcome.response.text))
    THEN ParseSseResponse(outcome.response.text)
    ELSE IF JsonParse(outcome.response.text) = <<>> THEN Null
    ELSE JsonParse(outcome.response.text)[1]

\* _jsonRpcCall of src/unnamed/part_002, given what its fetch settled with:
\* null when the fetch rejected or the response is not ok; the truthy value
\* of _parseSseResponse for an event stream; otherwise the parsed body, its
\* result field when it has one; null when anything throws.
JsonRpcCall(outcome) ==
    IF outcome.kind /= "response" THEN Null
    ELSE IF ~outcome.response.ok THEN Null
    ELSE IF IsSse(outcome.response) /\ Truthy(ParseSseResponse(outcome.response.text))
    THEN ParseSseResponse(outcome.response.text)
    ELSE IF JsonParse(outcome.response.text) = <<>> THEN Null
    ELSE IF ResultOrWhole(JsonParse(outcome.response.text)[1]) = Thrown THEN Null
    ELSE ResultOrWhole(JsonParse(outcome.response.text)[1])

\* The timeout of a crawler constructed without one, in milliseconds.
DefaultTimeout == 5000

\* The endpoints the crawler is called with: strings given by their parts.
\* Two are HTTP(S) URLs, one of them with a trailing '/'; the others are
\* not.
Endpoints ==
    {<<"https://", "agent.example">>, <<"http://", "agent.example", "/">>,
     <<"ftp://", "agent.example">>, <<"agent.example">>, <<>>}

\* endpoint.startsWith('http://') || endpoint.startsWith('https://')
StartsWithHttp_Any(endpoint) == TRUE
StartsWithHttp(endpoint) == Len(endpoint) > 0 /\ endpoint[1] \in {"http://", "https://"}

\* endpoint.replace(/\/$/, '')
StripSlash(endpoint) ==
    IF Len(endpoint) > 0 /\ endpoint[Len(endpoint)] = "/"
    THEN SubSeq(endpoint, 1, Len(endpoint) - 1) ELSE endpoint

\* The paths _fetchViaJsonRpc of part_002 tries, the methods it calls on
\* each, and the key of the list in the reply of each method.
EndpointPaths == <<"", "/mcp", "/sse">>
ListMethods == <<"tools/list", "resources/list", "prompts/list">>
ListKeys == <<"tools", "resources", "prompts">>

\* The resources _fetchViaJsonRpc of part_001 gets.
RestPaths == <<"/tools", "/resources", "/prompts">>

\* The keys of McpCapabilities, by listing call.
CapabilityKeys == <<"mcpTools", "mcpResources", "mcpPrompts">>

\* A request as fetch is given it: the URL, the HTTP method, the JSON-RPC
\* method of its body (if any) and the timeout of its signal (if any).
Request(url, method, rpc, timeout) == [url |-> url, method |-> method, rpc |-> rpc, timeout |-> timeout]

\* The request _jsonRpcCall makes.
RpcRequest(url, rpcMethod) == Request(url, "POST", <<rpcMethod>>, <<DefaultTimeout>>)

\* The request part_001 makes for one of its three resources: no signal.
RestRequest(url) == Request(url, "GET", <<>>, <<>>)

\* The request for a static document.
DocRequest(url) == Request(url, "GET", <<>>, <<DefaultTimeout>>)

\* The well-known path first.
AgentcardUrls_WellKnownFirst(endpoint) ==
    <<endpoint \o <<"/.well-known/agent.json">>,
      endpoint \o <<"/agentcard.json">>,
      StripSlash(endpoint) \o <<"/.well-known/agent.json">>>>

\* The URLs fetchA2aCapabilities tries, in order.
AgentcardUrls(endpoint) ==
    <<endpoint \o <<"/agentcard.json">>,
      endpoint \o <<"/.well-known/agent.json">>,
      StripSlash(endpoint) \o <<"/.well-known/agent.json">>>>

\* A fetch that has settled, with the number of the calls of its path that
\* had been issued by then.
Completed(outcome, issued) == [status |-> "settled", outcome |-> outcome, issued |-> issued]

\* ---- what the remote may answer

Named(name) == Ordered(<<<<"name", Str(name)>>>>)
ListDoc(key, items) == Ordered(<<<<key, Arr(items)>>>>)
RpcResult(value) == Ordered(<<<<"jsonrpc", Str("2.0")>>, <<"id", Num(1)>>, <<"result", value>>>>)
JsonBody(value) == Response(TRUE, "application/json", <<JsonLine(Parsable(value))>>)

NotFound == Response(FALSE, "text/html", <<BlankLine>>)
Malformed == Response(TRUE, "application/json", <<BlankLine>>)
TwoNames == <<Named("a"), Named("b")>>
SameNameTwice == <<Named("a"), Named("a")>>

\* The event stream of a JSON-RPC result.
SseBody(value) == Response(TRUE, "text/event-stream", <<EventLine, DataLine(Parsable(RpcResult(value))), BlankLine>>)

\* What a request for the list under a key may settle with when the remote
\* answers or the connection fails: a status that is not 2xx, a body that
\* is not JSON, the JSON texts null and 5, an empty list, a list of two
\* names in an event stream, a list naming one capability twice.
ListReplies(key) ==
    {FetchFailed,
     Answered(NotFound),
     Answered(Malformed),
     Answered(JsonBody(Null)),
     Answered(JsonBody(Num(5))),
     Answered(JsonBody(RpcResult(ListDoc(key, <<>>)))),
     Answered(SseBody(ListDoc(key, TwoNames))),
     Answered(JsonBody(ListDoc(key, SameNameTwice)))}

\* A static document with the same list under every key, at the top level
\* or in a container.
DocKeys == <<"tools", "prompts", "resources", "skills">>
FlatDoc(items) == Ordered([i \in DOMAIN DocKeys |-> <<DocKeys[i], Arr(items)>>])
NestedDoc(container, items) == Ordered(<<<<container, FlatDoc(items)>>>>)

\* What a request for a static document may settle with.
DocReplies ==
    {FetchFailed,
     Answered(NotFound),
     Answered(Malformed),
     Answered(JsonBody(Null)),
     Answered(JsonBody(Num(5))),
     Answered(JsonBody(FlatDoc(<<>>))),
     Answered(JsonBody(FlatDoc(<<Str("a"), Str("b")>>))),
     Answered(JsonBody(NestedDoc("abilities", <<Named("a"), Str("a")>>)))}

\* ---- a call of the crawler

\* A capability set, given by the lists under its keys.
Caps(lists) == [t |-> "caps", v |-> lists]

\* The two classes, by what their _fetchViaJsonRpc does.
Crawlers == {"jsonrpc", "rest"}

\* fetchMcpCapabilities or fetchA2aCapabilities has been called on a
\* crawler of one of the two classes, constructed with the default timeout.
InitCrawl ==
    /\ \E impl \in Crawlers, op \in {"mcp", "a2a"}, endpoint \in Endpoints :
          crawl = [impl |-> impl, op |-> op, endpoint |-> endpoint,
                   pc |-> "called", path |-> 1,
                   calls |-> [i \in 1..3 |-> NotIssued], doc |-> NotIssued,
                   probed |-> <<>>, fetched |-> <<>>, requests |-> <<>>,
                   result |-> <<>>]
    /\ parsed = <<>>
    /\ NoneApart
    /\ now = ClockSeconds * 1000
    /\ signed = <<>>
    /\ canon = <<>>
    /\ read = <<>>
    /\ NoPipeline

\* The call returns a value, or throws.
Return(value) ==
    [crawl EXCEPT !.pc = IF value = Thrown THEN "threw" ELSE "returned",
                  !.result = <<value>>]

\* The test both operations start with: an endpoint that is not an HTTP(S)
\* URL gives null at once; otherwise fetchMcpCapabilities starts the
\* JSON-RPC probe and fetchA2aCapabilities goes to its first URL.
Validate ==
    /\ crawl.pc = "called"
    /\ crawl' = IF ~StartsWithHttp(crawl.endpoint) THEN Return(Null)
                ELSE [crawl EXCEPT !.pc = IF crawl.op = "mcp" THEN "probing"
                                          ELSE "candidate"]
    /\ UNCHANGED <<now, signed, canon, read, parsed, pipeline, apart>>

\* The URL and the request of listing call i of the current path.
CallUrl(i) ==
    IF crawl.impl = "jsonrpc"
    THEN StripSlash(crawl.endpoint) \o <<EndpointPaths[crawl.path]>>
    ELSE crawl.endpoint \o <<RestPaths[i]>>

CallRequest(i) ==
    IF crawl.impl = "jsonrpc" THEN RpcRequest(CallUrl(i), ListMethods[i])
    ELSE RestRequest(CallUrl(i))

\* part_002 makes its three calls in the argument of Promise.all and then
\* awaits; part_001 awaits each fetch before it makes the next.
PcAfterCall(impl, issued) ==
    IF impl = "jsonrpc" /\ issued < 3 THEN "probing" ELSE "awaiting"

\* The next listing call runs up to its await: its fetch is issued.
IssueCall ==
    /\ crawl.pc = "probing"
    /\ LET i == Issued(crawl.calls) + 1
       IN  crawl' = [crawl EXCEPT !.calls[i] = InFlight,
                                  !.requests = Append(@, CallRequest(i)),
                                  !.pc = PcAfterCall(crawl.impl, i)]
    /\ UNCHANGED <<now, signed, canon, read, parsed, pipeline, apart>>

\* The request of listing call i, as it was issued.
IssuedRequest(i) == crawl.requests[Len(crawl.requests) - Issued(crawl.calls) + i]

\* What a listing call gives when its fetch has settled: what _jsonRpcCall
\* returns, in the class of part_002; the value of res.json(), which
\* throws when the fetch rejected or the body is not JSON, in the class of
\* part_001.
CallValue(impl, outcome) ==
    IF impl = "jsonrpc" THEN JsonRpcCall(outcome)
    ELSE IF outcome.kind /= "response" THEN Thrown
    ELSE IF JsonParse(outcome.response.text) = <<>> THEN Thrown
    ELSE JsonParse(outcome.response.text)[1]

\* A listing call that has settled: what its fetch settled with, what the
\* call gave, and the number of calls of its path issued by then.
CompletedCall(outcome, value, issued) == [status |-> "settled", outcome |-> outcome, value |-> value, issued |-> issued]

\* The fetch of listing call i settles while the crawler is suspended, and
\* the call runs to its end.
CallSettles(i, outcome) ==
    /\ crawl.pc = "awaiting"
    /\ crawl.calls[i] = InFlight
    /\ crawl' = [crawl EXCEPT !.calls[i] =
                    CompletedCall(outcome, CallValue(crawl.impl, outcome),
                                  Issued(crawl.calls))]
    /\ UNCHANGED <<now, signed, canon, read, parsed, pipeline, apart>>

\* The remote answers listing call i, or the connection fails.
CallAnswered(i) == \E outcome \in ListReplies(ListKeys[i]) : CallSettles(i, outcome)

\* The timeout of the signal of listing call i aborts its fetch.
CallTimeout(i) ==
    /\ crawl.calls[i] = InFlight
    /\ IssuedRequest(i).timeout /= <<>>
    /\ CallSettles(i, TimedOut)

\* What listing call i of the current path returned to _fetchViaJsonRpc of
\* part_002, and the names taken from it.
Returned(i) == crawl.calls[i].value
ListOfCall(i) == RpcNames(Returned(i), ListKeys[i])

\* Promise.all resolves when the three calls have returned (none of them
\* rejects, since _jsonRpcCall catches what its body throws).
AllCompleted(calls) == \A i \in DOMAIN calls : calls[i].status = "settled"

\* The capability set of a path: the lists that are not empty.
PathResult(lists) ==
    Caps([key \in {CapabilityKeys[i] : i \in {j \in 1..3 : Len(lists[j]) > 0}} |->
             lists[CHOOSE i \in 1..3 : CapabilityKeys[i] = key]])

\* What _fetchViaJsonRpc of part_002 does with the lists of a path: it
\* returns them when one is not empty, otherwise it goes to the next path,
\* and returns null after the last one.
AfterPath(lists, path) ==
    IF \E i \in 1..3 : Len(lists[i]) > 0 THEN "return"
    ELSE IF path < Len(EndpointPaths) THEN "next" ELSE "fallback"

\* _fetchViaJsonRpc of part_002 goes on when Promise.all has resolved.
EvaluatePath ==
    /\ crawl.pc = "awaiting"
    /\ crawl.impl = "jsonrpc"
    /\ AllCompleted(crawl.calls)
    /\ LET lists == [i \in 1..3 |-> IF crawl.calls[i].status = "settled"
                                   THEN ListOfCall(i) ELSE <<>>]
           after == AfterPath(lists, crawl.path)
           probed == Append(crawl.probed,
                            [url |-> CallUrl(1),
                             tools |-> IF crawl.calls[1].status = "settled"
                                       THEN Returned(1) ELSE Undef,
                             lists |-> lists])
       IN  crawl' =
             IF after = "return"
             THEN [Return(PathResult(lists)) EXCEPT !.probed = probed]
             ELSE [crawl EXCEPT !.probed = probed,
                                !.calls = [i \in 1..3 |-> NotIssued],
                                !.path = IF after = "next" THEN @ + 1 ELSE @,
                                !.pc = IF after = "next" THEN "probing"
                                       ELSE "fallback"]
    /\ UNCHANGED <<now, signed, canon, read, parsed, pipeline, apart>>

\* _fetchViaJsonRpc of part_001 goes on when the fetch it awaits has
\* settled: res.json() gives the value of the body, whatever the status;
\* when the fetch rejected or the body is not JSON the catch makes it
\* return null; after the third value it returns the three values as they
\* are.
RestContinue ==
    /\ crawl.pc = "awaiting"
    /\ crawl.impl = "rest"
    /\ LET i == Issued(crawl.calls)
       IN  /\ crawl.calls[i].status = "settled"
           /\ LET threw == crawl.calls[i].value = Thrown
                  values == [j \in 1..3 |-> crawl.calls[j].value]
              IN  crawl' =
                    IF threw THEN [crawl EXCEPT !.pc = "fallback"]
                    ELSE IF i < 3 THEN [crawl EXCEPT !.pc = "probing"]
                    ELSE Return(Caps([key \in Range(CapabilityKeys) |->
                            values[CHOOSE j \in 1..3 : CapabilityKeys[j] = key]]))
    /\ UNCHANGED <<now, signed, canon, read, parsed, pipeline, apart>>

\* The URL of the static document the crawler fetches next: the agent card
\* of the fallback of fetchMcpCapabilities, or the next URL of the list of
\* fetchA2aCapabilities.
DocUrl ==
    IF crawl.op = "mcp" THEN crawl.endpoint \o <<"/agentcard.json">>
    ELSE AgentcardUrls(crawl.endpoint)[crawl.path]

\* The fetch of a static document is issued.
IssueDoc ==
    /\ crawl.pc \in {"fallback", "candidate"}
    /\ crawl' = [crawl EXCEPT !.doc = InFlight,
                              !.requests = Append(@, DocRequest(DocUrl)),
                              !.pc = "fetching"]
    /\ UNCHANGED <<now, signed, canon, read, parsed, pipeline, apart>>

\* What the body of the try of the fallback gives (part_002:55-75): the
\* three lists of the document when one of them is not empty, null when
\* the response is not ok or every list is empty; it throws when the fetch
\* rejected, when the body is not JSON and when _extractList throws.
FallbackTry(outcome) ==
    IF outcome.kind /= "response" THEN Thrown
    ELSE IF ~outcome.response.ok THEN Null
    ELSE IF JsonParse(outcome.response.text) = <<>> THEN Thrown
    ELSE LET data == JsonParse(outcome.response.text)[1]
         IN  IF ExtractListThrows(data) THEN Thrown
             ELSE IF \E key \in {"tools", "prompts", "resources"} :
                        Len(ExtractList(data, key)) > 0
             THEN Caps([key \in {"mcpTools", "mcpPrompts", "mcpResources"} |->
                          CASE key = "mcpTools" -> ExtractList(data, "tools")
                            [] key = "mcpPrompts" -> ExtractList(data, "prompts")
                            [] OTHER -> ExtractList(data, "resources")])
             ELSE Null

\* What the body of the try of one URL of fetchA2aCapabilities gives
\* (part_002:251-266): the skills of the document when there are some,
\* null otherwise; it throws as the fallback does.
CandidateTry(outcome) ==
    IF outcome.kind /= "response" THEN Thrown
    ELSE IF ~outcome.response.ok THEN Null
    ELSE IF JsonParse(outcome.response.text) = <<>> THEN Thrown
    ELSE LET data == JsonParse(outcome.response.text)[1]
         IN  IF ExtractListThrows(data) THEN Thrown
             ELSE IF Len(ExtractList(data, "skills")) > 0
             THEN Caps([key \in {"a2aSkills"} |-> ExtractList(data, "skills")])
             ELSE Null

\* What is thrown is thrown on.
Caught_Rethrown(value) == value

\* catch { }: what the try threw is dropped, and the code after the catch
\* finds nothing.
Caught(value) == IF value = Thrown THEN Null ELSE value

\* The crawler goes on when the fetch of a static document has settled.
\* The fallback returns what it found, or null.  fetchA2aCapabilities
\* returns the skills it found, goes to its next URL when it found none,
\* and returns null after the last URL.
DocSettles(outcome) ==
    /\ crawl.pc = "fetching"
    /\ crawl.doc = InFlight
    /\ LET found == Caught(IF crawl.op = "mcp" THEN FallbackTry(outcome)
                           ELSE CandidateTry(outcome))
           fetched == Append(crawl.fetched, [url |-> DocUrl, outcome |-> outcome])
           settled == [crawl EXCEPT !.doc = Completed(outcome, 1), !.fetched = fetched]
       IN  crawl' =
             IF crawl.op = "mcp" \/ found /= Null \/ crawl.path = Len(AgentcardUrls(crawl.endpoint))
             THEN [settled EXCEPT !.pc = IF found = Thrown THEN "threw" ELSE "returned",
                                  !.result = <<found>>]
             ELSE [settled EXCEPT !.pc = "candidate", !.path = @ + 1, !.doc = NotIssued]
    /\ UNCHANGED <<now, signed, canon, read, parsed, pipeline, apart>>

\* The remote answers the request for the document, or the connection
\* fails.
DocAnswered == \E outcome \in DocReplies : DocSettles(outcome)

\* The timeout of the signal of the request for the document aborts it.
DocTimeout ==
    /\ crawl.doc = InFlight
    /\ crawl.requests[Len(crawl.requests)].timeout /= <<>>
    /\ DocSettles(TimedOut)

NextCrawl ==
    \/ Validate
    \/ IssueCall
    \/ \E i \in 1..3 : CallAnswered(i) \/ CallTimeout(i)
    \/ EvaluatePath
    \/ RestContinue
    \/ IssueDoc
    \/ DocAnswered
    \/ DocTimeout

SpecCrawl == InitCrawl /\ [][NextCrawl]_vars

\* A continuation of the crawler runs, and the timeout of a signal aborts
\* its fetch.
CrawlerStep == Validate \/ IssueCall \/ EvaluatePath \/ RestContinue \/ IssueDoc
TimeoutFires == DocTimeout \/ \E i \in 1..3 : CallTimeout(i)

\* The crawler with the scheduling of its runtime: a continuation that can
\* run does run, and a timeout that is pending fires when nothing else has
\* settled its fetch.  Nothing makes the remote answer.
FairCrawl == WF_vars(CrawlerStep) /\ WF_vars(TimeoutFires)

SpecCrawlFair == SpecCrawl /\ FairCrawl

\* ---- _jsonRpcCall on its own

\* The longest body, in lines.
MaxLines == 2

\* The JSON values of the lines of a body: null, numbers, the envelope of a
\* JSON-RPC result, a list without envelope.
Payloads ==
    {Null, Num(5), Num(0), ListDoc("tools", TwoNames),
     RpcResult(ListDoc("tools", TwoNames)), RpcResult(ListDoc("tools", <<>>)),
     RpcResult(Num(0))}

JsonTexts == {Unparsable} \cup {Parsable(value) : value \in Payloads}

Lines ==
    {EventLine, BlankLine} \cup {DataLine(json) : json \in JsonTexts}
        \cup {JsonLine(json) : json \in JsonTexts}

Bodies == UNION {[1..n -> Lines] : n \in 1..MaxLines}

\* What the fetch of a listing call may settle with.
Replies ==
    {FetchFailed, TimedOut} \cup
    {Answered(Response(ok, contentType, text)) :
        ok \in BOOLEAN, contentType \in {"application/json", "text/event-stream"},
        text \in Bodies}

\* The fetch of a call of _jsonRpcCall has settled.
InitReply ==
    /\ \E reply \in Replies : parsed = [reply |-> reply, returned |-> <<>>]
    /\ crawl = <<>>
    /\ NoneApart
    /\ now = ClockSeconds * 1000
    /\ signed = <<>>
    /\ canon = <<>>
    /\ read = <<>>
    /\ NoPipeline

\* _jsonRpcCall runs to its end: what the one of part_002 and the one of
\* part_001 return.
ReturnReply ==
    /\ parsed.returned = <<>>
    /\ parsed' = [parsed EXCEPT !.returned =
                    <<[part_002 |-> JsonRpcCall(parsed.reply),
                       part_001 |-> JsonRpcCall_Whole(parsed.reply)]>>]
    /\ UNCHANGED <<now, signed, canon, read, crawl, pipeline, apart>>

NextReply == ReturnReply

SpecReply == InitReply /\ [][NextReply]_vars

\* ---- _extractList on its own

\* The entries a list may hold: a string, an object with a name, an object
\* whose name is a number and whose id is a string, an object with its id
\* before its name, an object with a title only, an object without any name
\* field, a number, null, an array.
EntriesNamed(place) ==
    <<Str(place),
      Named(place \o "-name"),
      Ordered(<<<<"name", Num(5)>>, <<"id", Str(place \o "-id")>>>>),
      Ordered(<<<<"id", Str(place \o "-id")>>, <<"name", Str(place \o "-name")>>>>),
      Ordered(<<<<"title", Str(place \o "-title")>>>>),
      Ordered(<<<<"uri", Str(place \o "-uri")>>>>),
      Num(5), Null, Arr(<<>>)>>

\* The lists a place of a document may hold under the key.
ListsAt(place) ==
    {<<>>, <<Str(place)>>, <<Num(5), Null>>,
     <<Ordered(<<<<"name", Num(5)>>, <<"id", Str(place \o "-id")>>>>)>>,
     EntriesNamed(place)}

\* What a place of a document may hold under the key: nothing, a string, or
\* one of the lists.
UnderKey(key, place) ==
    {<<>>, <<<<key, Str(place)>>>>} \cup {<<<<key, Arr(list)>>>> : list \in ListsAt(place)}

\* What a document may hold under the name of a container: nothing, null, a
\* list, or an object with or without the key.
ContainersAt(key, c) ==
    {<<>>, <<<<c, Null>>>>, <<<<c, Arr(<<Str(c)>>)>>>>}
        \cup {<<<<c, Ordered(under)>>>> : under \in UnderKey(key, c) \ {<<<<key, Arr(EntriesNamed(c))>>>>}}

\* The documents _extractList is given for a key: objects with or without
\* the key at the top level and in each container, besides a list under
\* another key; and the values null and 5, which are not objects.
DocumentsFor(key) ==
    {Null, Num(5)} \cup
    {Ordered(<<<<"other", Arr(<<Str("other")>>)>>>> \o top \o cap \o abil \o feat) :
        top \in UnderKey(key, "top"),
        cap \in ContainersAt(key, "capabilities"),
        abil \in ContainersAt(key, "abilities"),
        feat \in ContainersAt(key, "features")}

\* _extractList is called with a document and a key.
InitExtract ==
    /\ \E key \in {"tools", "skills"} : \E data \in DocumentsFor(key) :
          extracted = [data |-> data, key |-> key, returned |-> <<>>]
    /\ task = <<>>
    /\ query = <<>>
    /\ both = <<>>
    /\ crawl = <<>>
    /\ parsed = <<>>
    /\ now = ClockSeconds * 1000
    /\ signed = <<>>
    /\ canon = <<>>
    /\ read = <<>>
    /\ NoPipeline

\* _extractList runs to its end: the list it returns, or the TypeError of
\* its first test.
ExtractReturns ==
    /\ extracted.returned = <<>>
    /\ extracted' = [extracted EXCEPT !.returned =
                       <<IF ExtractListThrows(extracted.data) THEN Thrown
                         ELSE Arr(ExtractList(extracted.data, extracted.key))>>]
    /\ UNCHANGED <<now, signed, canon, read, crawling, pipeline, task, query, both>>

NextExtract == ExtractReturns

SpecExtract == InitExtract /\ [][NextExtract]_vars

\* ---- executeTaskWithFeedback

\* What the paid request of executeTask may settle with: a response with
\* its data, or an error with the data of the response it carries (none
\* when there was no response) and its message.
PaidResponse(data) == [kind |-> "response", data |-> data]
RequestError(data, message) == [kind |-> "error", data |-> data, message |-> message]

TaskOutcomes ==
    {PaidResponse(Str("report")), PaidResponse(Null),
     RequestError(Str("payment required"), Str("Request failed with status code 402")),
     RequestError(Undef, Str("Network Error")),
     RequestError(Str(""), Str("Request failed with status code 500"))}

\* executeTask: success with the data of the response, or, from its catch,
\* failure with error?.response?.data || error?.message.
ExecuteTask(outcome) ==
    IF outcome.kind = "response" THEN [success |-> TRUE, data |-> outcome.data]
    ELSE [success |-> FALSE,
          error |-> IF Truthy(outcome.data) THEN outcome.data ELSE outcome.message]

TaskFailedMessage == "Task execution failed, feedback not submitted"
FeedbackFailedPrefix == "Feedback submission failed: "

\* What executeTaskWithFeedback returns when the task has failed, when
\* giveFeedback has returned, and from its catch when giveFeedback threw.
TaskFailedResult(taskResult) ==
    [taskResult |-> taskResult, feedbackResult |-> Null, error |-> Str(TaskFailedMessage)]
FeedbackGivenResult(taskResult, feedbackResult) ==
    [taskResult |-> taskResult, feedbackResult |-> feedbackResult, success |-> TRUE]
FeedbackFailedResult(taskResult, message) ==
    [taskResult |-> taskResult, feedbackResult |-> Null,
     error |-> Str(FeedbackFailedPrefix \o message), success |-> FALSE]

\* executeTaskWithFeedback without its early return: giveFeedback is called
\* whatever the task gave.
FeedbackDue_Always(taskResult) == TRUE

\* if (!taskResult.success) return ...: feedback is due after a task that
\* succeeded only.
FeedbackDue(taskResult) == taskResult.success

\* executeTaskWithFeedback has been called with the feedbackParams of an
\* agent and a configuration; giveFeedback has not been called.
InitTask ==
    /\ contractConfig \in [chainId : ConfigChains, pinataJwt : BOOLEAN]
    /\ \E id \in AgentIds, fp \in FeedbackInputs :
          task = [pc |-> "task", agentId |-> id, feedbackParams |-> fp,
                  settled |-> <<>>, taskResult |-> <<>>, returned |-> <<>>]
    /\ run = [r \in Runs |-> NoCall]
    /\ lastIndex \in [Tokens -> 0..MaxInitIndex]
    /\ chain = <<>>
    /\ now = ClockSeconds * 1000
    /\ signed = <<>> /\ canon = <<>> /\ read = <<>> /\ crawl = <<>> /\ parsed = <<>>
    /\ extracted = <<>>
    /\ query = <<>>
    /\ both = <<>>

\* await this.executeTask(...) settles: executeTaskWithFeedback returns at
\* once after a failed task, and calls giveFeedback otherwise.
TaskSettles(outcome) ==
    /\ task.pc = "task"
    /\ LET taskResult == ExecuteTask(outcome)
       IN  IF FeedbackDue(taskResult)
           THEN /\ task' = [task EXCEPT !.pc = "feedback", !.settled = <<outcome>>,
                                        !.taskResult = <<taskResult>>]
                /\ run' = [run EXCEPT ![1] = Called(task.agentId, task.feedbackParams)]
           ELSE /\ task' = [task EXCEPT !.pc = "returned", !.settled = <<outcome>>,
                                        !.taskResult = <<taskResult>>,
                                        !.returned = <<TaskFailedResult(taskResult)>>]
                /\ UNCHANGED run
    /\ UNCHANGED <<contractConfig, lastIndex, chain, now, signed, canon, read, crawling, extracted, query, both>>

TaskRuns == \E outcome \in TaskOutcomes : TaskSettles(outcome)

\* What giveFeedback throws: an Error with a message.
ErrorOf(message) == [t |-> "error", message |-> message]

\* The catch of executeTaskWithFeedback reads error.message, which throws
\* in its turn when the value caught is null or undefined.
FeedbackCaught(taskResult, error) ==
    IF GetThrows(error) THEN Thrown ELSE FeedbackFailedResult(taskResult, error.message)

\* await this.giveFeedback(...) settles: its result is returned, or its
\* error is caught and reported.
FeedbackSettles ==
    /\ task.pc = "feedback"
    /\ run[1].pc \in {"done", "failed"}
    /\ LET value == IF run[1].pc = "done"
                    THEN FeedbackGivenResult(task.taskResult[1], run[1].result[1])
                    ELSE FeedbackCaught(task.taskResult[1], ErrorOf(run[1].error))
       IN  task' = [task EXCEPT !.pc = IF value = Thrown THEN "threw" ELSE "returned",
                                !.returned = <<value>>]
    /\ UNCHANGED <<pipeline, now, signed, canon, read, crawling, extracted, query, both>>

NextTask == TaskRuns \/ Next \/ FeedbackSettles

SpecTask == InitTask /\ [][NextTask]_vars

\* ---- the subgraph queries

\* DEFAULT_SUBGRAPH_URLS: the chains with a subgraph, and the URL of each
\* (undefined for any other chain).
SubgraphChains == {11155111, 84532, 80002}
SubgraphUrl == "https://api.studio.thegraph.com/query/1715584/fluidsdk/version/latest"
DEFAULT_SUBGRAPH_URLS(chainId) == IF chainId \in SubgraphChains THEN Str(SubgraphUrl) ELSE Undef

\* The chain of getGraphQLEndpoint when it is given none.
DefaultSubgraphChain == 97

\* chainId || 97
TargetChainId(chainId) == IF Truthy(chainId) THEN chainId.v ELSE DefaultSubgraphChain

\* getGraphQLEndpoint(chainId): the URL of the target chain, undefined when
\* it throws for want of one.
GetGraphQLEndpoint(chainId) == DEFAULT_SUBGRAPH_URLS(TargetChainId(chainId))

NoSubgraphUrl == "No subgraph URL found for chainId"
HttpError == "HTTP error! status"
FailedToFetch == "Failed to fetch agents"
FetchRejected == "fetch failed"
NoAgentsInReply == "TypeError: Cannot read properties of undefined (reading 'agents')"

\* An agent of the subgraph, by its id, and the metadata behind its URI.
Agent(id) == [agentId |-> id, agentURI |-> "ipfs://" \o id]
AgentLists == {<<>>, <<Agent("1")>>, <<Agent("1"), Agent("2")>>}

\* What the POST of a query may settle with: a rejection, a status that is
\* not 2xx, a reply with errors, a reply with neither errors nor data, a
\* reply with agents.
QueryReplies ==
    {[kind |-> "rejected"], [kind |-> "status"], [kind |-> "errors"], [kind |-> "empty"]}
        \cup {[kind |-> "data", agents |-> agents] : agents \in AgentLists}

\* What the GET of an agent's metadata may settle with.
MetadataReplies == {[kind |-> "rejected"], [kind |-> "metadata", tools |-> <<>>],
                    [kind |-> "metadata", tools |-> <<"tool">>]}

QueryOps == {"fetchAgents", "fetchAgentById", "getAvailableTools"}
QueryChains == {Undef, Num(0), Num(97), Num(59141), Num(11155111), Num(84532), Num(80002)}

\* One of the three functions has been called, with or without a chainId.
InitQuery ==
    /\ \E op \in QueryOps, chainId \in QueryChains, agentId \in {"1", "3"} :
          query = [op |-> op, chainId |-> chainId, agentId |-> agentId, pc |-> "called",
                   requests |-> <<>>, agents |-> <<>>, at |-> 1, tools |-> <<>>,
                   result |-> <<>>, error |-> ""]
    /\ extracted = <<>>
    /\ task = <<>>
    /\ both = <<>>
    /\ crawl = <<>>
    /\ parsed = <<>>
    /\ now = ClockSeconds * 1000
    /\ signed = <<>>
    /\ canon = <<>>
    /\ read = <<>>
    /\ NoPipeline

\* The function throws: fetchAgents and fetchAgentById rethrow what they
\* catch, getAvailableTools awaits fetchAgents outside any try.
QueryThrows(message) == [query EXCEPT !.pc = "threw", !.error = message]

QueryReturns(value) == [query EXCEPT !.pc = "returned", !.result = <<value>>]

\* const GRAPHQL_ENDPOINT = getGraphQLEndpoint(chainId), then the POST of
\* the query is issued.
IssueQuery ==
    /\ query.pc = "called"
    /\ LET endpoint == GetGraphQLEndpoint(query.chainId)
       IN  query' = IF ~Truthy(endpoint) THEN QueryThrows(NoSubgraphUrl)
                    ELSE [query EXCEPT !.pc = "posted", !.requests = Append(@, endpoint.v)]
    /\ UNCHANGED <<now, signed, canon, read, crawling, pipeline, extracted, task, both>>

\* What each function does with the agents of the reply.
AfterAgents(agents) ==
    CASE query.op = "fetchAgents" -> QueryReturns(agents)
      [] query.op = "fetchAgentById" ->
            QueryReturns(IF Len(agents) > 0 THEN agents[1] ELSE Null)
      [] query.op = "getAvailableTools" ->
            IF Len(agents) = 0 THEN QueryReturns(<<>>)
            ELSE [query EXCEPT !.pc = "metadata", !.agents = agents, !.at = 1,
                               !.requests = Append(@, "https://ipfs.io/ipfs/" \o agents[1].agentId)]

\* The POST settles.
QuerySettles(reply) ==
    /\ query.pc = "posted"
    /\ query' = CASE reply.kind = "rejected" -> QueryThrows(FetchRejected)
                  [] reply.kind = "status" -> QueryThrows(HttpError)
                  [] reply.kind = "errors" -> QueryThrows(FailedToFetch)
                  [] reply.kind = "empty" -> QueryThrows(NoAgentsInReply)
                  [] reply.kind = "data" -> AfterAgents(reply.agents)
    /\ UNCHANGED <<now, signed, canon, read, crawling, pipeline, extracted, task, both>>

QueryAnswered == \E reply \in QueryReplies : QuerySettles(reply)

\* The GET of the metadata of an agent settles in the loop of
\* getAvailableTools: its tools are added, a failure is logged, and the
\* next agent's metadata is fetched.
MetadataSettles(reply) ==
    /\ query.pc = "metadata"
    /\ LET agent == query.agents[query.at]
           tools == IF reply.kind = "metadata"
                    THEN query.tools \o [k \in 1..Len(reply.tools) |-> reply.tools[k] \o " of " \o agent.agentId]
                    ELSE query.tools
       IN  query' = IF query.at = Len(query.agents)
                    THEN [QueryReturns(tools) EXCEPT !.tools = tools]
                    ELSE [query EXCEPT !.tools = tools, !.at = @ + 1,
                             !.requests = Append(@, "https://ipfs.io/ipfs/" \o query.agents[query.at + 1].agentId)]
    /\ UNCHANGED <<now, signed, canon, read, crawling, pipeline, extracted, task, both>>

MetadataAnswered == \E reply \in MetadataReplies : MetadataSettles(reply)

NextQuery == IssueQuery \/ QueryAnswered \/ MetadataAnswered

SpecQuery == InitQuery /\ [][NextQuery]_vars

\* ---- fetchMcpCapabilities of the two classes, with the same remote

\* A remote, by what it does with the JSON-RPC calls posted to each of the
\* three paths, with the GET of /tools, /resources and /prompts, and with
\* the GET of /agentcard.json: it answers with names, with an empty list
\* (or the JSON text null), with a status that is not 2xx, or not at all.
Remotes ==
    [rpc : {<<root, mcp, "notfound">> : root \in {"names", "empty", "notfound", "silent"},
                                         mcp \in {"names", "notfound"}},
     rest : {"names", "null", "notfound", "silent"},
     doc : {"names", "empty", "notfound", "silent"}]

\* A fetch that never settles.
Pending == [kind |-> "pending", response |-> NoResponse]

\* What the remote answers a request with, by the last part of its URL.
RemoteReply(remote, request) ==
    LET last == request.url[Len(request.url)]
        index(seq, x) == CHOOSE i \in DOMAIN seq : seq[i] = x
    IN  IF request.rpc /= <<>>
        THEN LET kind == remote.rpc[index(EndpointPaths, last)]
                 key == ListKeys[index(ListMethods, request.rpc[1])]
             IN  CASE kind = "names" -> Answered(JsonBody(RpcResult(ListDoc(key, TwoNames))))
                   [] kind = "empty" -> Answered(JsonBody(RpcResult(ListDoc(key, <<>>))))
                   [] kind = "notfound" -> Answered(NotFound)
                   [] kind = "silent" -> Pending
        ELSE IF last \in Range(RestPaths)
        THEN CASE remote.rest = "names" -> Answered(JsonBody(Arr(<<Str("a"), Str("b")>>)))
               [] remote.rest = "null" -> Answered(JsonBody(Null))
               [] remote.rest = "notfound" -> Answered(NotFound)
               [] remote.rest = "silent" -> Pending
        ELSE CASE remote.doc = "names" -> Answered(JsonBody(FlatDoc(<<Str("a"), Str("b")>>)))
               [] remote.doc = "empty" -> Answered(JsonBody(FlatDoc(<<>>)))
               [] remote.doc = "notfound" -> Answered(NotFound)
               [] remote.doc = "silent" -> Pending

\* What the fetch of a request settles with: the reply of the remote, the
\* abort of the request's timeout when the remote is silent, nothing when
\* it is silent and the request has no timeout.
FetchOutcome(remote, request) ==
    LET reply == RemoteReply(remote, request)
    IN  IF reply = Pending /\ request.timeout /= <<>> THEN TimedOut ELSE reply

\* The capability lists of a result, each a list of names or, when it is
\* no list of the crawler's making, the value that stands in its place.
NameList(list) == [list |-> list]
RawValue(value) == [value |-> value]
Listed(caps) == IF caps.t = "caps" THEN Caps([k \in DOMAIN caps.v |-> NameList(caps.v[k])]) ELSE caps

\* The fallback of fetchMcpCapabilities, the same in both classes.
McpFallback(remote, endpoint) ==
    Listed(Caught(FallbackTry(FetchOutcome(remote, DocRequest(endpoint \o <<"/agentcard.json">>)))))

\* _fetchViaJsonRpc of part_002, from a path on.
RECURSIVE ViaJsonRpc(_, _, _)
ViaJsonRpc(remote, endpoint, path) ==
    LET url == StripSlash(endpoint) \o <<EndpointPaths[path]>>
        lists == [i \in 1..3 |->
                    RpcNames(JsonRpcCall(FetchOutcome(remote, RpcRequest(url, ListMethods[i]))),
                             ListKeys[i])]
        after == AfterPath(lists, path)
    IN  IF after = "return" THEN Listed(PathResult(lists))
        ELSE IF after = "next" THEN ViaJsonRpc(remote, endpoint, path + 1)
        ELSE Null

\* _fetchViaJsonRpc of part_001: the three values in the order they are
\* awaited; null from the catch at the first that throws; no return when
\* one of the fetches never settles.
ViaRest(remote, endpoint) ==
    LET outcome == [i \in 1..3 |-> FetchOutcome(remote, RestRequest(endpoint \o <<RestPaths[i]>>))]
        stops == {i \in 1..3 : outcome[i] = Pending \/ CallValue("rest", outcome[i]) = Thrown}
    IN  IF stops = {}
        THEN <<Caps([key \in Range(CapabilityKeys) |->
                       RawValue(CallValue("rest", outcome[CHOOSE j \in 1..3 : CapabilityKeys[j] = key]))])>>
        ELSE IF outcome[CHOOSE i \in stops : \A j \in stops : i <= j] = Pending THEN <<>>
        ELSE <<Null>>

\* fetchMcpCapabilities of the two classes: what it returns, if it returns.
FetchMcpCapabilities(impl, remote, endpoint) ==
    IF ~StartsWithHttp(endpoint) THEN <<Null>>
    ELSE LET capabilities == IF impl = "jsonrpc" THEN <<ViaJsonRpc(remote, endpoint, 1)>>
                             ELSE ViaRest(remote, endpoint)
         IN  IF capabilities = <<>> THEN <<>>
             ELSE IF capabilities[1] /= Null THEN capabilities
             ELSE <<McpFallback(remote, endpoint)>>

\* fetchMcpCapabilities is called on a crawler of each class with the same
\* endpoint, the remote being the same.
InitBoth ==
    /\ \E remote \in Remotes, endpoint \in Endpoints :
          both = [remote |-> remote, endpoint |-> endpoint,
                  ran |-> [impl \in Crawlers |-> FALSE],
                  returned |-> [impl \in Crawlers |-> <<>>]]
    /\ extracted = <<>>
    /\ task = <<>>
    /\ query = <<>>
    /\ crawl = <<>>
    /\ parsed = <<>>
    /\ now = ClockSeconds * 1000
    /\ signed = <<>>
    /\ canon = <<>>
    /\ read = <<>>
    /\ NoPipeline

\* The call on the crawler of one class runs as far as it gets.
CrawlerRuns(impl) ==
    /\ ~both.ran[impl]
    /\ both' = [both EXCEPT !.ran[impl] = TRUE,
                            !.returned[impl] = FetchMcpCapabilities(impl, both.remote, both.endpoint)]
    /\ UNCHANGED <<now, signed, canon, read, crawling, pipeline, extracted, task, query>>

NextBoth == \E impl \in Crawlers : CrawlerRuns(impl)

SpecBoth == InitBoth /\ [][NextBoth]_vars

\* ============================================================= properties

IsPrefix(a, b) == Len(a) <= Len(b) /\ \A i \in 1..Len(a) : a[i] = b[i]

\* The stages the pipeline's description names.
NamedStages ==
    {"ParseIdentifier", "ResolveIndex", "BuildRecord", "UploadContent",
     "ComputeAuthorization", "SubmitTransaction", "AwaitConfirmation", "Done"}

\* The named stages among those a call has run, in the order it ran them.
NamedHistory(r) == SelectSeq(run[r].stages, LAMBDA st : st \in NamedStages)

Without(order, stage) == SelectSeq(order, LAMBDA st : st /= stage)

\* The history is a path through `order`, the upload taken or not.
FollowsOrder(r, order) ==
    \/ IsPrefix(NamedHistory(r), order)
    \/ IsPrefix(NamedHistory(r), Without(order, "UploadContent"))

DescribedOrder ==
    <<"ParseIdentifier", "ResolveIndex", "BuildRecord", "UploadContent",
      "ComputeAuthorization", "SubmitTransaction", "AwaitConfirmation", "Done">>

AuthorizationFirstOrder ==
    <<"ParseIdentifier", "ResolveIndex", "BuildRecord", "ComputeAuthorization",
      "UploadContent", "SubmitTransaction", "AwaitConfirmation", "Done">>

\* C1, as stated: every call runs its stages in the order ParseIdentifier,
\* ResolveIndex, BuildRecord, (optional) UploadContent, ComputeAuthorization,
\* SubmitTransaction, AwaitConfirmation, Done, none twice, the upload before
\* the authorization.
C1_DescribedOrder == \A r \in Runs : FollowsOrder(r, DescribedOrder)

\* C1, amended: every call runs its stages in the order ParseIdentifier,
\* ResolveIndex, BuildRecord, ComputeAuthorization, (optional) UploadContent,
\* SubmitTransaction, AwaitConfirmation, Done: none runs twice, none is
\* skipped but the upload, and the authorization token is computed before
\* the content is uploaded.
C1_StageOrder == \A r \in Runs : FollowsOrder(r, AuthorizationFirstOrder)

C1_Witness ==
    \E r \in Runs :
        /\ run[r].pc = "done"
        /\ NamedHistory(r) = AuthorizationFirstOrder

\* The index the resolver is to give for what the read did.
ExpectedIndex(r) ==
    IF run[r].readOutcome = "ok" THEN run[r].readValue + 1 ELSE 1

\* C2: once ResolveIndex has run, the resolved index is L+1 when the read
\* of the last index gave L (the registry's value for the pair), and 1 when
\* the read failed; the failure is no error of the call, which goes on to
\* the next stage.
C2_ResolveIndex ==
    \A r \in Runs :
        "ResolveIndex" \in Range(run[r].stages) =>
            /\ run[r].readOutcome \in {"ok", "failed", "threw"}
            /\ run[r].feedbackIndex = ExpectedIndex(r)
            /\ run[r].failedAt /= "ResolveIndex"
            /\ run[r].pc = "build" => run[r].error = ""
            /\ (run[r].readOutcome = "ok" /\ chain = <<>>) =>
                   run[r].feedbackIndex = LastIndexOf(run[r].tokenId.v) + 1

C2_Witness ==
    \E r \in Runs :
        /\ run[r].readOutcome = "failed"
        /\ run[r].feedbackIndex = 1
        /\ LastIndexOf(run[r].tokenId.v) = MaxInitIndex
        /\ run[r].pc = "sign"

\* The stages other than the upload whose failure the pipeline's
\* description calls terminal.
TerminalStages ==
    {"LookupRegistries", "ParseIdentifier", "SetupWallet", "BuildRecord",
     "ComputeAuthorization", "SubmitTransaction", "AwaitConfirmation"}

\* C3: a failed upload is no failure of the call: the call is at
\* SubmitTransaction or beyond it, with an empty content reference and a
\* zero hash, and these are what it submits; a failure in the registry
\* lookup, the identifier parse, the authorization, the submission or the
\* confirmation ends the call failed, without a result.
C3_UploadBestEffort ==
    \A r \in Runs :
        /\ run[r].uploadOutcome = "failed" =>
              /\ run[r].failedAt /= "UploadContent"
              /\ run[r].pc \in {"submit", "wait", "done", "failed"}
              /\ run[r].pc = "failed" =>
                    run[r].failedAt \in {"SubmitTransaction", "AwaitConfirmation"}
              /\ run[r].feedbackUri = NoUri
              /\ run[r].feedbackHash = ZeroHash
              /\ \A i \in 1..Len(run[r].submitted) :
                    /\ run[r].submitted[i].feedbackUri = NoUri
                    /\ run[r].submitted[i].feedbackHash = ZeroHash
        /\ run[r].failedAt /= "" =>
              /\ run[r].failedAt \in TerminalStages
              /\ run[r].pc = "failed"
              /\ run[r].error /= ""
              /\ run[r].result = <<>>
              /\ "Done" \notin Range(run[r].stages)

C3_Witness ==
    \E r \in Runs :
        /\ run[r].uploadOutcome = "failed"
        /\ run[r].pc = "done"
        /\ run[r].submitted[1].feedbackHash = ZeroHash

\* A part of an identifier that is a non-negative decimal integer.
IsNaturalLiteral(part) ==
    /\ part /= <<>>
    /\ \A i \in 1..Len(part) : part[i] \in DigitChars

\* An identifier of the form "<networkId>:<tokenId>", both non-negative
\* integers.
WellFormedIdentifier(agentId) ==
    LET parts == Split(agentId, ":")
    IN  /\ Len(parts) = 2
        /\ IsNaturalLiteral(parts[1])
        /\ IsNaturalLiteral(parts[2])

\* C4: the identifier is accepted exactly when splitting it on ':' gives two
\* non-empty parts that are both non-negative integers, and then networkId
\* and tokenId are those integers; every other identifier fails with
\* InvalidIdentifier.
C4_ParseExactlyWellFormed ==
    \A r \in Runs :
        "ParseIdentifier" \in Range(run[r].stages) =>
            LET parts == Split(run[r].agentId, ":")
            IN  IF WellFormedIdentifier(run[r].agentId)
                THEN /\ run[r].failedAt /= "ParseIdentifier"
                     /\ run[r].chainId = Num(DigitsFrom(parts[1], 1, 0))
                     /\ run[r].tokenId = Num(DigitsFrom(parts[2], 1, 0))
                ELSE /\ run[r].failedAt = "ParseIdentifier"
                     /\ run[r].error = InvalidIdentifier

\* The call failed because of its identifier: it was refused as invalid, or
\* an identifier that is not well formed made a later stage fail.
FailedOnIdentifier(r) ==
    /\ run[r].pc = "failed"
    /\ \/ run[r].error = InvalidIdentifier
       \/ /\ ~WellFormedIdentifier(run[r].agentId)
          /\ run[r].failedAt \in {"BuildRecord", "ComputeAuthorization"}

\* C5: when giveFeedback fails because the agent identifier is invalid, no
\* registry read, no upload, no signing and no submission has been made in
\* that call.
C5_InvalidIdentifierBeforeIO ==
    \A r \in Runs :
        FailedOnIdentifier(r) =>
            /\ run[r].reads = 0
            /\ run[r].uploads = 0
            /\ run[r].signs = 0
            /\ run[r].submitted = <<>>

\* The networks the README lists as supported.
DocumentedNetworks == {11155111, 84532, 59141, 80002}

\* A chain for which the table holds an identity and a reputation registry.
HasRegistries(chainId) ==
    /\ chainId \in RegistryChains
    /\ RegistriesOf(chainId).IDENTITY /= ""
    /\ RegistriesOf(chainId).REPUTATION /= ""

\* C6: a call ends with UnsupportedNetwork exactly when no identity and
\* reputation registry is configured for the network of its configuration,
\* and then before any registry read, signing, upload or submission; for
\* none of the four documented networks it ends with UnsupportedNetwork.
C6_UnsupportedNetwork ==
    \A r \in Runs :
        "LookupRegistries" \in Range(run[r].stages) =>
            /\ run[r].error = UnsupportedNetwork <=>
                   ~HasRegistries(contractConfig.chainId)
            /\ contractConfig.chainId \in DocumentedNetworks =>
                   run[r].error /= UnsupportedNetwork
            /\ run[r].error = UnsupportedNetwork =>
                   /\ run[r].pc = "failed"
                   /\ run[r].stages = <<"LookupRegistries">>
                   /\ run[r].reads = 0
                   /\ run[r].signs = 0
                   /\ run[r].uploads = 0
                   /\ run[r].submitted = <<>>
                   /\ chain = <<>>

C6_Witness ==
    \E r \in Runs :
        /\ run[r].error = UnsupportedNetwork
        /\ contractConfig.chainId \notin DocumentedNetworks
        /\ run[r].pc = "failed"

\* The calls whose submission the registry accepted.
Accepted(r) == run[r].pc \in {"wait", "done"} \/ run[r].failedAt = "AwaitConfirmation"

\* C7: with a registry that rejects an index limit not greater than the
\* pair's last index, a call whose resolved index collides with an index
\* already used ends with SubmissionRejected thrown to its caller and
\* never returns a result; of the interleaved calls that resolved the same
\* index at most one is accepted and returns a result.
C7_CollisionRejected ==
    /\ \A r \in Runs :
          run[r].collided =>
              /\ run[r].pc = "failed"
              /\ run[r].error = SubmissionRejected
              /\ run[r].failedAt = "SubmitTransaction"
              /\ run[r].result = <<>>
    /\ \A r1, r2 \in Runs :
          (r1 /= r2 /\ Accepted(r1) /\ Accepted(r2)
             /\ run[r1].tokenId = run[r2].tokenId) =>
              run[r1].feedbackIndex /= run[r2].feedbackIndex

C7_Witness ==
    \E r1, r2 \in Runs :
        /\ r1 /= r2
        /\ run[r1].readOutcome = "ok"
        /\ run[r2].readOutcome = "ok"
        /\ run[r1].feedbackIndex = run[r2].feedbackIndex
        /\ run[r1].pc = "done"
        /\ run[r2].collided
        /\ run[r2].error = SubmissionRejected

\* C8: in one call the registry's giveFeedback is called at most once; when
\* it is rejected the confirmation is never awaited, the error reaches the
\* caller and no second submission is made.
C8_NoRetry ==
    \A r \in Runs :
        /\ Len(run[r].submitted) <= 1
        /\ run[r].waits <= 1
        /\ run[r].error = SubmissionRejected =>
              /\ run[r].pc = "failed"
              /\ run[r].failedAt = "SubmitTransaction"
              /\ Len(run[r].submitted) = 1
              /\ run[r].waits = 0
              /\ run[r].tx = <<>>
              /\ \A i \in 1..Len(chain) : chain[i].by /= r

C8_Witness ==
    \E r \in Runs :
        /\ run[r].error = SubmissionRejected
        /\ ~run[r].collided
        /\ Len(run[r].submitted) = 1

C10_ResultAfterConfirmation ==
    \A r \in Runs :
        /\ run[r].result /= <<>> <=> run[r].pc = "done"
        /\ run[r].pc = "done" =>
              /\ Len(run[r].submitted) = 1
              /\ run[r].waits = 1
              /\ run[r].failedAt = ""
              /\ \E i \in 1..Len(chain) :
                    /\ chain[i].by = r
                    /\ run[r].result[1].transactionHash = <<"0xtx", i>>
                    /\ run[r].result[1].blockNumber = i
                    /\ run[r].result[1].feedbackUri = chain[i].args.feedbackUri
                    /\ run[r].result[1].feedbackFile["feedbackAuth"] =
                          Hex(chain[i].args.feedbackAuth)
              /\ run[r].result[1].feedbackIndex = ExpectedIndex(r)
              /\ run[r].result[1].feedbackFile = run[r].feedbackFile
              /\ run[r].result[1].feedbackUri = run[r].feedbackUri

C10_Witness ==
    \E r \in Runs :
        /\ run[r].pc = "done"
        /\ run[r].uploadOutcome = "ok"
        /\ run[r].result[1].feedbackUri /= NoUri
        /\ run[r].result[1].feedbackIndex = MaxInitIndex + 1

\* The record BuildRecord has just built is what the call holds until the
\* authorization is written into it.
RecordJustBuilt(r) == run[r].pc = "sign"

\* C11: the caller's extra map is merged last into the record BuildRecord
\* builds and wins for every key: the record's value at every key of extra
\* is extra's value, also at the computed keys score and createdAt (score
\* input 3 with extra {score: 99} gives the record score 99).
C11_ExtraWins ==
    \A r \in Runs :
        RecordJustBuilt(r) =>
            \A k \in DOMAIN run[r].params.extra :
                /\ k \in DOMAIN run[r].feedbackFile
                /\ run[r].feedbackFile[k] = run[r].params.extra[k]

C11_Witness ==
    \E r \in Runs :
        /\ RecordJustBuilt(r)
        /\ run[r].params = ParamsExtraWins
        /\ MathRound(run[r].params.score) = Num(3)
        /\ run[r].params.extra["score"] = Num(99)
        /\ run[r].feedbackFile["score"] = Num(99)
        /\ run[r].feedbackFile["createdAt"] = Str(<<"caller">>)

\* The optional fields of the feedback file.
OptionalFields ==
    {"tag1", "tag2", "skill", "context", "task", "capability", "name",
     "proofOfPayment"}

\* The input gives no value for the optional field k.
NotGiven(params, k) ==
    CASE k = "tag1" -> Len(params.tags) < 1
      [] k = "tag2" -> Len(params.tags) < 2
      [] OTHER -> params[k] \in {Undef, Null}

\* The call has hashed its record: the upload succeeded, and the hash was
\* taken of the record the call holds.
RecordHashed(r) == run[r].uploadOutcome = "ok"

\* C12: in the record that is hashed every optional field that is
\* undefined, null or absent in the input is absent as a key, and no key of
\* the record has a null or undefined value.
C12_NoNullInHashedRecord ==
    \A r \in Runs :
        RecordHashed(r) =>
            /\ \A k \in OptionalFields :
                  NotGiven(run[r].params, k) => k \notin DOMAIN run[r].feedbackFile
            /\ \A k \in DOMAIN run[r].feedbackFile :
                  run[r].feedbackFile[k] \notin {Undef, Null}

\* The nearest integer of a number given in tenths, halves up.
Nearest(tenths) == (tenths + 5) \div 10

Clamp(n, lo, hi) == IF n < lo THEN lo ELSE IF n > hi THEN hi ELSE n

\* The score the description gives for an input score: rounded to the
\* nearest integer and clamped to 0..100, 0 when absent.
DescribedScore(score) ==
    IF score = Undef THEN Num(0) ELSE Num(Clamp(Nearest(score.v), 0, 100))

\* The call was given no extra score, so the record's score is the one
\* computed from the input.
ScoreComputed(r) == "score" \notin DOMAIN run[r].params.extra

\* C13: the score placed in the record and the score sent to the registry
\* are the input score rounded to the nearest integer and clamped to 0..100
\* (it fits the registry's 8-bit unsigned score); an absent score gives 0.
C13_ScoreRoundedAndClamped ==
    \A r \in Runs :
        ("BuildRecord" \in Range(run[r].stages) /\ run[r].failedAt /= "BuildRecord"
            /\ ScoreComputed(r)) =>
            /\ run[r].feedbackFile["score"] = DescribedScore(run[r].params.score)
            /\ run[r].feedbackFile["score"].v \in 0..255
            /\ \A i \in 1..Len(run[r].submitted) :
                  run[r].submitted[i].score = DescribedScore(run[r].params.score)

\* The i-th tag of the list, the empty text when the list has none.
TagAt(tags, i) == IF i <= Len(tags) THEN tags[i] ELSE <<>>

\* field is 32 bytes: `bytes` left-aligned, zero-padded, cut after the 32nd.
LeftAlignedIn32(field, bytes) ==
    /\ DOMAIN field = 1..32
    /\ \A i \in 1..32 : field[i] = IF i <= Len(bytes) THEN bytes[i] ELSE "00"

\* The number of non-empty tags of the list.
NonEmptyTags(tags) == Cardinality({i \in 1..Len(tags) : tags[i] /= <<>>})

\* The text has no character but NUL (the empty text has none).
OnlyNul(text) == \A i \in 1..Len(text) : text[i] = "NUL"

\* What C14 says of the tag fields sent and of the record, but for when
\* tag2 is zero: each field is the 32-byte form of the first, the second tag
\* of the list; the record's tag1 and tag2 are these two tags; no later tag
\* is in the record.  (A tag1 or tag2 of the caller's extra map replaces the
\* record's; the fields sent are not touched by it.)
TagsFromFirstTwo(r) ==
    LET tags == run[r].params.tags
    IN  /\ \A i \in 1..Len(run[r].submitted) :
              /\ LeftAlignedIn32(run[r].submitted[i].tag1, TextEncode(TagAt(tags, 1)))
              /\ LeftAlignedIn32(run[r].submitted[i].tag2, TextEncode(TagAt(tags, 2)))
        /\ ("BuildRecord" \in Range(run[r].stages) /\ run[r].failedAt /= "BuildRecord") =>
              /\ "tag1" \notin DOMAIN run[r].params.extra =>
                     /\ "tag1" \in DOMAIN run[r].feedbackFile <=> TagAt(tags, 1) /= <<>>
                     /\ "tag1" \in DOMAIN run[r].feedbackFile =>
                            run[r].feedbackFile["tag1"] = Str(tags[1])
              /\ "tag2" \notin DOMAIN run[r].params.extra =>
                     /\ "tag2" \in DOMAIN run[r].feedbackFile <=> Len(tags) >= 2
                     /\ "tag2" \in DOMAIN run[r].feedbackFile =>
                            run[r].feedbackFile["tag2"] = Str(tags[2])
              /\ \A k \in DOMAIN run[r].feedbackFile, j \in 3..Len(tags) :
                     run[r].feedbackFile[k] /= Str(tags[j])

WordAt(bytes, k) == SubSeq(bytes, 32 * (k - 1) + 1, 32 * k)

\* The number a 32-byte big-endian word holds (its upper 28 bytes are zero).
WordValue(word) ==
    word[29][2] * 16777216 + word[30][2] * 65536 + word[31][2] * 256 + word[32][2]

\* The word holds a number: 32 number bytes, the upper 28 zero.
IsUintWord(word) ==
    /\ Len(word) = 32
    /\ \A i \in 1..32 : word[i][1] = "byte"
    /\ \A i \in 1..28 : word[i][2] = 0

\* The word holds the address: 12 zero bytes, then its 20 bytes in order.
IsAddressWord(word, address) ==
    /\ Len(word) = 32
    /\ \A i \in 1..12 : word[i] = <<"byte", 0>>
    /\ \A i \in 13..32 : word[i] = <<address, i - 12>>

\* The expiry hours a signing was made with.
HoursOf(input) == IF input.expiryHours = Undef THEN 24 ELSE input.expiryHours.v

\* C15: the token is the seven fields tokenId, submitter address, index
\* limit, expiry, network id, registry address, signer address, in this
\* order and each in one 32-byte word, with the signature's bytes right
\* after them and nothing between; the fields take the same 224 bytes for
\* every input, so the signature starts at the same offset.
C15_TokenLayout ==
    \A n \in 1..Len(signed) :
        LET bytes == GetBytes(signed[n].token)
            input == signed[n].input
        IN  /\ Len(bytes) = 7 * 32 + 65
            /\ \A i \in 1..Len(bytes) : bytes[i] /= Prefix0x
            /\ IsUintWord(WordAt(bytes, 1))
            /\ WordValue(WordAt(bytes, 1)) = input.tokenId.v
            /\ IsAddressWord(WordAt(bytes, 2), WalletAddress)
            /\ IsUintWord(WordAt(bytes, 3))
            /\ WordValue(WordAt(bytes, 3)) = input.indexLimit
            /\ IsUintWord(WordAt(bytes, 4))
            /\ IsUintWord(WordAt(bytes, 5))
            /\ WordValue(WordAt(bytes, 5)) = 11155111
            /\ IsAddressWord(WordAt(bytes, 6), RegistriesOf(11155111).IDENTITY)
            /\ IsAddressWord(WordAt(bytes, 7), WalletAddress)
            /\ \A i \in 1..65 :
                  /\ bytes[7 * 32 + i][1] = "signature"
                  /\ bytes[7 * 32 + i][2] = i
                  /\ bytes[7 * 32 + i][3] = WalletAddress

C15_Witness ==
    \E m, n \in 1..Len(signed) :
        /\ signed[m].input.tokenId /= signed[n].input.tokenId
        /\ signed[m].input.indexLimit /= signed[n].input.indexLimit
        /\ Len(signed[m].token) = Len(signed[n].token)
        /\ GetBytes(signed[n].token)[225][1] = "signature"

\* The seconds of a clock reading in milliseconds.
SecondsOf(millis) == millis \div 1000

\* C16: the expiry field of a token is the signing time in Unix seconds
\* plus expiryHours * 3600, with 24 hours when none are given; of two
\* signings with identical inputs the other six fields are equal and the
\* expiry fields differ by the seconds elapsed between them.
C16_Expiry ==
    /\ \A n \in 1..Len(signed) :
          WordValue(WordAt(GetBytes(signed[n].token), 4)) =
              SecondsOf(signed[n].at) + HoursOf(signed[n].input) * 3600
    /\ \A m, n \in 1..Len(signed) :
          signed[m].input = signed[n].input =>
              /\ \A k \in {1, 2, 3, 5, 6, 7} :
                    WordAt(GetBytes(signed[m].token), k) =
                        WordAt(GetBytes(signed[n].token), k)
              /\ WordValue(WordAt(GetBytes(signed[n].token), 4))
                    - WordValue(WordAt(GetBytes(signed[m].token), 4))
                    = SecondsOf(signed[n].at) - SecondsOf(signed[m].at)

C16_Witness ==
    \E m, n \in 1..Len(signed) :
        /\ signed[m].input = signed[n].input
        /\ signed[m].input.expiryHours = Undef
        /\ SecondsOf(signed[n].at) = SecondsOf(signed[m].at) + 1
        /\ signed[m].token /= signed[n].token
        /\ WordValue(WordAt(GetBytes(signed[m].token), 4)) =
               SecondsOf(signed[m].at) + 86400

\* The key/value pairs of a record, whatever the order they were inserted
\* in, the pairs of its nested objects taken the same way.
RECURSIVE PairsOf(_)
PairsOf(entries) ==
    {<<entries[i][1],
       IF entries[i][2].t = "entries"
       THEN [t |-> "object", v |-> PairsOf(entries[i][2].v)]
       ELSE entries[i][2]>> : i \in 1..Len(entries)}

\* The keys of the members of a serialized object, in their order.
MemberKeys(json) == [i \in 1..Len(json.v) |-> json.v[i][1]]

Ascending(keys) ==
    \A i, j \in 1..Len(keys) : i < j => KeyRank(keys[i]) < KeyRank(keys[j])

\* C17: the hash depends on the record's set of key/value pairs only, not
\* on the order the keys were inserted in: two records with the same keys
\* and values are serialized with their keys in the same sorted order and
\* have the same hash.
C17_HashIgnoresInsertionOrder ==
    (canon.hashes[1] /= <<>> /\ canon.hashes[2] /= <<>>) =>
        /\ Ascending(MemberKeys(canon.hashes[1][1].keccak256))
        /\ Ascending(MemberKeys(canon.hashes[2][1].keccak256))
        /\ PairsOf(canon.records[1]) = PairsOf(canon.records[2]) =>
              canon.hashes[1] = canon.hashes[2]

C17_Witness ==
    /\ canon.hashes[1] /= <<>>
    /\ canon.hashes[1] = canon.hashes[2]
    /\ PairsOf(canon.records[1]) = PairsOf(canon.records[2])
    /\ ObjectKeys(canon.records[1]) = <<"score", "context", "agentId">>
    /\ ObjectKeys(canon.records[2]) = <<"context", "agentId", "score">>
    /\ canon.records[1][2][2] /= canon.records[2][1][2]

\* The call is at SubmitTransaction or has made its submission.
AtSubmission(r) ==
    run[r].pc = "submit" \/ "SubmitTransaction" \in Range(run[r].stages)

\* C18: at SubmitTransaction the content reference is empty exactly when
\* the content hash is 32 zero bytes: both are empty/zero when the upload
\* was skipped or failed, and after a successful upload the reference is
\* that of the returned content id and the hash is the non-zero hash of the
\* record; the call submits these two values.
C18_ReferenceAndHash ==
    \A r \in Runs :
        AtSubmission(r) =>
            /\ run[r].feedbackUri = NoUri <=> run[r].feedbackHash = ZeroHash
            /\ run[r].uploadOutcome \in {"skipped", "failed", "ok"}
            /\ run[r].uploadOutcome \in {"skipped", "failed"} =>
                  /\ run[r].feedbackUri = NoUri
                  /\ run[r].feedbackHash = ZeroHash
            /\ run[r].uploadOutcome = "ok" =>
                  /\ run[r].feedbackUri = <<"ipfs://", Cid(run[r].feedbackFile)>>
                  /\ run[r].feedbackHash = Keccak256(SortedJson(run[r].feedbackFile))
                  /\ run[r].feedbackHash /= ZeroHash
            /\ \A i \in 1..Len(run[r].submitted) :
                  /\ run[r].submitted[i].feedbackUri = run[r].feedbackUri
                  /\ run[r].submitted[i].feedbackHash = run[r].feedbackHash

C18_Witness ==
    \E r \in Runs :
        /\ run[r].pc = "wait"
        /\ run[r].uploadOutcome = "ok"
        /\ run[r].submitted[1].feedbackUri /= NoUri
        /\ run[r].submitted[1].feedbackHash /= ZeroHash

\* The gateways of the list whose fetch succeeded.
Succeeded == {i \in DOMAIN read.promises : read.promises[i].status = "fulfilled"}

\* The position of gateway i in the order the promises settled in.
SettledAt(i) == CHOOSE n \in 1..Len(read.settled) : read.settled[n].gateway = i

\* C19: get selects by the order of the list, not by the order of
\* completion: it returns the content of the earliest gateway of the list
\* (the configured gateway first, then the fallback list) whose fetch
\* succeeded, in whatever order the fetches finished, and fails only when
\* none succeeded; with [A fails, B succeeds late, C succeeds early] it
\* returns B's content.
C19_ListOrderWins ==
    /\ read.pc = "returned" =>
          /\ Succeeded /= {}
          /\ \E i \in Succeeded :
                /\ \A j \in Succeeded : i <= j
                /\ read.result[1].outcome.status = "fulfilled"
                /\ read.result[1].outcome.value.servedBy = read.gateways[i][1]
                /\ read.result[1].outcome.value.cid = ContentId
    /\ read.pc = "failed" =>
          /\ Succeeded = {}
          /\ read.result[1].outcome = Rejected(ContentUnavailable)
    /\ read.pc \in {"mapping", "awaiting", "returned", "failed"} =>
          /\ Len(read.gateways) = NFallback + 1
          /\ read.gateways[1][1] \in {"https://gateway.pinata.cloud", "https://my.gateway"}
          /\ \A i \in 1..NFallback : read.gateways[i + 1][1] = IPFS_GATEWAYS[i].base

C19_Witness ==
    /\ read.pc = "returned"
    /\ read.promises[1].status = "rejected"
    /\ Succeeded = {2, 3}
    /\ SettledAt(3) < SettledAt(2)
    /\ read.result[1].outcome.value.servedBy = read.gateways[2][1]

\* C20: get issues the fetch to every gateway of the list before any of
\* them settles, and neither returns nor fails before every one of them
\* has settled, also when the first gateway of the list has long succeeded.
C20_AllIssuedAllSettled ==
    /\ \A n \in 1..Len(read.settled) :
          read.settled[n].issued = NFallback + 1
    /\ read.pc \in {"returned", "failed"} =>
          /\ \A i \in DOMAIN read.promises :
                read.promises[i].status \in {"fulfilled", "rejected"}
          /\ read.result[1].settled = NFallback + 1
    /\ read.result /= <<>> <=> read.pc \in {"returned", "failed"}

C20_Witness ==
    /\ read.pc = "returned"
    /\ read.settled[1].gateway = 1
    /\ read.promises[1].status = "fulfilled"
    /\ read.settled[1].issued = NFallback + 1
    /\ read.result[1].settled = NFallback + 1

\* The reasons a gateway's promise is rejected with: a response that is not
\* ok, a fetch that threw (a transport error, the timeout's abort), a body
\* that could not be read.
GatewayFailures == {"HTTP status", "fetch failed", "body failed"}

\* C21: a completed get has failed with ContentUnavailable exactly when no
\* gateway's fetch succeeded, a transport error, a timeout and a response
\* that is not ok each counting as the failure of that gateway; when one
\* gateway at least succeeded it has returned content and has not failed.
C21_UnavailableIffNoneSucceeded ==
    read.result /= <<>> =>
        /\ \A i \in DOMAIN read.promises :
              \/ read.promises[i].status = "fulfilled"
              \/ /\ read.promises[i].status = "rejected"
                 /\ read.promises[i].reason \in GatewayFailures
        /\ read.result[1].outcome = Rejected(ContentUnavailable) <=> Succeeded = {}
        /\ read.pc = "failed" <=> Succeeded = {}
        /\ Succeeded /= {} =>
              /\ read.pc = "returned"
              /\ read.result[1].outcome.status = "fulfilled"
              /\ read.result[1].outcome.value \in
                    {BodyOf(read.gateways[i]) : i \in Succeeded}

C21_Witness ==
    /\ read.pc = "returned"
    /\ read.promises[1] = Rejected("HTTP status")
    /\ read.promises[2] = Rejected("fetch failed")
    /\ read.promises[3].status = "fulfilled"
    /\ read.result[1].outcome = Fulfilled(BodyOf(read.gateways[3]))

\* Every gateway failed, each in its own way, and get failed.
C21_WitnessUnavailable ==
    /\ read.pc = "failed"
    /\ read.promises[1] = Rejected("HTTP status")
    /\ read.promises[2] = Rejected("fetch failed")
    /\ read.promises[3] = Rejected("body failed")
    /\ read.result[1].outcome = Rejected(ContentUnavailable)

\* C22: fetchMcpCapabilities and fetchA2aCapabilities never throw to their
\* caller: whatever the endpoint and whatever the remote does (a transport
\* error, a timeout, a status that is not 2xx, a body that is not JSON, a
\* JSON value that is not an object), a call that has completed has
\* returned a capability set or null.
C22_NeverThrows ==
    /\ crawl.pc /= "threw"
    /\ crawl.result /= <<>> <=> crawl.pc = "returned"
    /\ crawl.result /= <<>> => crawl.result[1].t \in {"null", "caps"}

C22_Witness ==
    /\ crawl.op = "a2a"
    /\ crawl.pc = "returned"
    /\ Len(crawl.fetched) = 3
    /\ crawl.fetched[1].outcome = Answered(Malformed)
    /\ crawl.fetched[2].outcome = Answered(JsonBody(Num(5)))
    /\ crawl.fetched[3].outcome = TimedOut
    /\ crawl.result = <<Null>>

\* The fallback of fetchMcpCapabilities met a JSON null and gave null.
C22_WitnessFallback ==
    /\ crawl.op = "mcp"
    /\ crawl.impl = "jsonrpc"
    /\ crawl.pc = "returned"
    /\ crawl.doc.status = "settled"
    /\ crawl.doc.outcome = Answered(JsonBody(Null))
    /\ crawl.result = <<Null>>

\* The endpoints that begin neither with 'http://' nor with 'https://'.
NotHttp == {e \in Endpoints : Len(e) = 0 \/ (e[1] /= "http://" /\ e[1] /= "https://")}

\* C23: for an endpoint that begins neither with 'http://' nor with
\* 'https://', fetchMcpCapabilities and fetchA2aCapabilities return null
\* and issue no network request.
C23_NoRequestForOtherSchemes ==
    crawl.endpoint \in NotHttp =>
        /\ crawl.requests = <<>>
        /\ crawl.pc \in {"called", "returned"}
        /\ crawl.pc = "returned" => crawl.result = <<Null>>
        /\ crawl.doc = NotIssued
        /\ \A i \in 1..3 : crawl.calls[i] = NotIssued

C23_Witness ==
    /\ crawl.endpoint = <<"ftp://", "agent.example">>
    /\ crawl.op = "mcp"
    /\ crawl.pc = "returned"
    /\ crawl.result = <<Null>>
    /\ crawl.requests = <<>>

\* The requests of a call other than those for a static document.
IsDocUrl(url) == url[Len(url)] \in {"/agentcard.json", "/.well-known/agent.json"}
ProbeRequests == SelectSeq(crawl.requests, LAMBDA r : ~IsDocUrl(r.url))

\* A path of the probe gave a list that is not empty.
Yielded(k) == \E i \in 1..3 : Len(crawl.probed[k].lists[i]) > 0

\* What C24 says of a call of fetchMcpCapabilities: the requests of the
\* probe go to the endpoint (without its trailing '/') followed by '',
\* '/mcp' and '/sse', three to each and in this order; a path is probed
\* only when no path before it gave a list that is not empty; the first
\* path that gives one ends the call, which returns its lists.
PathsInOrder ==
    /\ \A n \in 1..Len(ProbeRequests) :
          /\ n <= 3 * Len(EndpointPaths)
          /\ ProbeRequests[n].url =
                StripSlash(crawl.endpoint) \o <<EndpointPaths[((n - 1) \div 3) + 1]>>
    /\ \A k \in 1..Len(crawl.probed) :
          /\ Len(ProbeRequests) >= 3 * k
          /\ Yielded(k) =>
                /\ k = Len(crawl.probed)
                /\ Len(ProbeRequests) = 3 * k
                /\ crawl.pc = "returned"
                /\ crawl.result = <<PathResult(crawl.probed[k].lists)>>
                /\ crawl.doc = NotIssued
    /\ (crawl.pc = "returned" /\ crawl.doc = NotIssued /\ StartsWithHttp(crawl.endpoint)) =>
          /\ Len(crawl.probed) > 0
          /\ Yielded(Len(crawl.probed))

\* C24: the structured-RPC probe tries the suffixes root, '/mcp' and '/sse'
\* in this order and stops at the first one that yields a list that is not
\* empty: later suffixes are not probed, a suffix with only empty lists or
\* only failures is skipped, and with an empty tools list at the root and
\* two tools at '/mcp' the result is those two tools.
C24_PathsInOrder == crawl.op = "mcp" => PathsInOrder

\* The same of the class of src/unnamed/part_002 alone.
C24_PathsInOrderJsonRpc == (crawl.op = "mcp" /\ crawl.impl = "jsonrpc") => PathsInOrder

\* The root path gave an empty tools list, '/mcp' two tools, and
\* the call returned those two.
C24_RootEmptyThenMcp ==
    /\ crawl.impl = "jsonrpc"
    /\ crawl.pc = "returned"
    /\ Len(crawl.probed) = 2
    /\ crawl.probed[1].tools = ListDoc("tools", <<>>)
    /\ crawl.probed[2].url = <<"http://", "agent.example", "/mcp">>
    /\ crawl.result[1].v = [key \in {"mcpTools"} |-> <<Str("a"), Str("b")>>]
    /\ Len(crawl.requests) = 6

\* What C25 says of a step of a call of fetchMcpCapabilities: a listing
\* call that has settled did so when the three calls of its path had been
\* issued; the crawler leaves its await, and settles what the path gave,
\* only when the three calls have settled; and the two names one call was
\* answered with are in the result whatever became of the other two calls.
ConcurrentListingStep ==
    /\ \A i \in 1..3 :
          crawl'.calls[i].status = "settled" => crawl'.calls[i].issued = 3
    /\ (crawl.pc = "awaiting" /\ crawl'.pc /= "awaiting") =>
          \A i \in 1..3 : crawl.calls[i].status = "settled"
    /\ Len(crawl'.probed) > Len(crawl.probed) =>
          \A i \in 1..3 :
              crawl.calls[i].outcome = Answered(SseBody(ListDoc(ListKeys[i], TwoNames))) =>
                  /\ crawl'.pc = "returned"
                  /\ CapabilityKeys[i] \in DOMAIN crawl'.result[1].v
                  /\ crawl'.result[1].v[CapabilityKeys[i]] = <<Str("a"), Str("b")>>

\* C25: within one path attempt the three listing calls (tools, resources,
\* prompts) are all issued before any of them completes, the success of the
\* path is evaluated only after all three have completed, and the failure
\* of one or two of the calls does not discard the list another returned.
C25_ConcurrentListing == [][crawl.op = "mcp" => ConcurrentListingStep]_vars

\* The same of the class of src/unnamed/part_002 alone.
C25_ConcurrentListingJsonRpc ==
    [][(crawl.op = "mcp" /\ crawl.impl = "jsonrpc") => ConcurrentListingStep]_vars

\* Two calls of a path failed, the third listed two prompts, and the call
\* returned those.
C25_OneOfThree ==
    /\ crawl.impl = "jsonrpc"
    /\ crawl.pc = "returned"
    /\ crawl.calls[1] = CompletedCall(FetchFailed, Null, 3)
    /\ crawl.calls[2] = CompletedCall(TimedOut, Null, 3)
    /\ crawl.calls[3].status = "settled"
    /\ crawl.result[1].v = [key \in {"mcpPrompts"} |-> <<Str("a"), Str("b")>>]

\* The probe of a call of fetchMcpCapabilities was given a list that is not
\* empty: by a path, in the class of part_002; in the body of one of the
\* three resources, in the class of part_001.
ProbeYielded ==
    IF crawl.impl = "jsonrpc" THEN \E k \in 1..Len(crawl.probed) : Yielded(k)
    ELSE \E i \in 1..3 :
            /\ crawl.calls[i].status = "settled"
            /\ crawl.calls[i].outcome = Answered(JsonBody(ListDoc(ListKeys[i], SameNameTwice)))

\* What C26 says of a call of fetchMcpCapabilities with an HTTP(S)
\* endpoint.
Cascade ==
    /\ crawl.doc /= NotIssued =>
          /\ ~ProbeYielded
          /\ crawl.requests[Len(crawl.requests)].url = crawl.endpoint \o <<"/agentcard.json">>
    /\ crawl.pc = "returned" => (crawl.doc = NotIssued <=> ProbeYielded)
    /\ (crawl.pc = "returned" /\ crawl.doc /= NotIssued) =>
          /\ crawl.result[1].t = "caps" =>
                \E key \in DOMAIN crawl.result[1].v : Len(crawl.result[1].v[key]) > 0
          /\ crawl.result[1].t = "caps" <=>
                crawl.doc.outcome \in
                    {Answered(JsonBody(FlatDoc(<<Str("a"), Str("b")>>))),
                     Answered(JsonBody(NestedDoc("abilities", <<Named("a"), Str("a")>>)))}
          /\ crawl.result[1].t /= "caps" => crawl.result = <<Null>>

\* C26: '<endpoint>/agentcard.json' is fetched exactly when the
\* structured-RPC probe yielded no list that is not empty on any path; what
\* the fallback found is returned only when one of its tools, prompts and
\* resources lists is not empty; when both steps fail the result is null.
C26_Cascade == (crawl.op = "mcp" /\ StartsWithHttp(crawl.endpoint)) => Cascade

\* The same of the class of src/unnamed/part_002 alone.
C26_CascadeJsonRpc ==
    (crawl.op = "mcp" /\ crawl.impl = "jsonrpc" /\ StartsWithHttp(crawl.endpoint)) => Cascade

\* The three paths gave nothing and the agent card listed two tools.
C26_FallbackFound ==
    /\ crawl.impl = "jsonrpc"
    /\ crawl.pc = "returned"
    /\ Len(crawl.probed) = 3
    /\ crawl.doc.status = "settled"
    /\ crawl.result[1].t = "caps"
    /\ crawl.result[1].v["mcpTools"] = <<Str("a"), Str("b")>>

\* The class of part_001 returned three values none of which is a list,
\* and did not fetch the agent card.
C26_RestNoFallback ==
    /\ crawl.impl = "rest"
    /\ crawl.op = "mcp"
    /\ crawl.pc = "returned"
    /\ crawl.doc = NotIssued
    /\ crawl.result[1].t = "caps"
    /\ crawl.result[1].v["mcpTools"] = Num(5)

\* The documents with skills the remote may answer with, and the skills
\* each holds.
WithSkills ==
    {Answered(JsonBody(FlatDoc(<<Str("a"), Str("b")>>))),
     Answered(JsonBody(NestedDoc("abilities", <<Named("a"), Str("a")>>)))}

SkillsIn(outcome) ==
    IF outcome = Answered(JsonBody(FlatDoc(<<Str("a"), Str("b")>>)))
    THEN <<Str("a"), Str("b")>> ELSE <<Str("a"), Str("a")>>

\* The endpoint without its trailing '/'.
Stripped(endpoint) ==
    IF endpoint[Len(endpoint)] = "/" THEN SubSeq(endpoint, 1, Len(endpoint) - 1)
    ELSE endpoint

\* C27: fetchA2aCapabilities tries '<endpoint>/agentcard.json', then
\* '<endpoint>/.well-known/agent.json', then the latter with the trailing
\* '/' of the endpoint stripped, one after the other; it returns the skills
\* of the first that answers 2xx with a skills list that is not empty and
\* fetches none after it; an error, a timeout, a status that is not 2xx and
\* an empty skills list lead to the next; when all fail the result is null.
C27_SkillsFromFirstCandidate ==
    (crawl.op = "a2a" /\ crawl.endpoint \notin NotHttp) =>
        /\ Len(crawl.requests) <= 3
        /\ Len(crawl.requests) <= Len(crawl.fetched) + 1
        /\ Len(crawl.requests) >= 1 =>
              crawl.requests[1].url = crawl.endpoint \o <<"/agentcard.json">>
        /\ Len(crawl.requests) >= 2 =>
              crawl.requests[2].url = crawl.endpoint \o <<"/.well-known/agent.json">>
        /\ Len(crawl.requests) >= 3 =>
              crawl.requests[3].url =
                  Stripped(crawl.endpoint) \o <<"/.well-known/agent.json">>
        /\ \A k \in 1..Len(crawl.fetched) :
              /\ crawl.fetched[k].url = crawl.requests[k].url
              /\ crawl.fetched[k].outcome \in WithSkills =>
                    /\ k = Len(crawl.requests)
                    /\ crawl.pc = "returned"
                    /\ crawl.result[1].t = "caps"
                    /\ crawl.result[1].v =
                          [key \in {"a2aSkills"} |-> SkillsIn(crawl.fetched[k].outcome)]
              /\ (crawl.fetched[k].outcome \notin WithSkills /\ k < 3) =>
                    crawl.pc \in {"candidate", "fetching", "returned"} /\
                    (crawl.pc = "returned" => Len(crawl.requests) > k)
        /\ crawl.pc = "returned" =>
              \/ crawl.fetched[Len(crawl.fetched)].outcome \in WithSkills
              \/ /\ crawl.result = <<Null>>
                 /\ Len(crawl.fetched) = 3
                 /\ \A k \in 1..3 : crawl.fetched[k].outcome \notin WithSkills

C27_Witness ==
    /\ crawl.op = "a2a"
    /\ crawl.endpoint = <<"http://", "agent.example", "/">>
    /\ crawl.pc = "returned"
    /\ Len(crawl.fetched) = 3
    /\ crawl.fetched[1].outcome = Answered(NotFound)
    /\ crawl.fetched[2].outcome = Answered(JsonBody(FlatDoc(<<>>)))
    /\ crawl.fetched[3].url = <<"http://", "agent.example", "/.well-known/agent.json">>
    /\ crawl.result[1].t = "caps"
    /\ crawl.result[1].v["a2aSkills"] = <<Str("a"), Str("b")>>

\* No value is in the list twice.
Distinct(list) == \A i, j \in DOMAIN list : i /= j => list[i] /= list[j]

\* The capability set a call returned holds lists of names (the class of
\* part_001 can return the bodies of its three resources as they are).
ReturnedLists ==
    /\ crawl.pc = "returned"
    /\ crawl.result[1].t = "caps"
    /\ crawl.impl = "jsonrpc" \/ crawl.doc /= NotIssued

\* The lists of a returned capability set are in the order of the remote.
C28_OrderKept ==
    ReturnedLists =>
        \A key \in DOMAIN crawl.result[1].v :
            crawl.result[1].v[key] \in
                {<<Str("a"), Str("b")>>, <<Str("a"), Str("a")>>, <<>>}

\* C28: every list of a returned capability set keeps the order in which
\* the remote listed the names and holds no name twice, also when the
\* remote lists a name more than once.
C28_OrderedNoDuplicates ==
    ReturnedLists =>
        \A key \in DOMAIN crawl.result[1].v :
            /\ crawl.result[1].v[key] \in
                  {<<Str("a"), Str("b")>>, <<Str("a"), Str("a")>>, <<Str("a")>>, <<>>}
            /\ Distinct(crawl.result[1].v[key])

\* The remote listed the tool 'a' twice and the call returned it twice.
C28_NameTwice ==
    /\ crawl.impl = "jsonrpc"
    /\ crawl.pc = "returned"
    /\ crawl.calls[1].status = "settled"
    /\ crawl.calls[1].outcome = Answered(JsonBody(ListDoc("tools", SameNameTwice)))
    /\ crawl.result[1].v["mcpTools"] = <<Str("a"), Str("a")>>

\* What C29 says of a call: each of its requests carries the timeout of the
\* crawler, and it returns in the end.
EventuallyReturns ==
    /\ [](\A n \in 1..Len(crawl.requests) :
              crawl.requests[n].timeout = <<DefaultTimeout>>)
    /\ <>(crawl.pc = "returned")

\* C29: every request of the crawler carries a bounded timeout (5000 ms by
\* default), so that, a request with a timeout always settling, every call
\* of fetchMcpCapabilities and fetchA2aCapabilities returns in the end,
\* whatever the remote does, also when it never answers.
C29_EventuallyReturns == EventuallyReturns

\* The same of the class of src/unnamed/part_002 alone.
C29_EventuallyReturnsJsonRpc == crawl.impl = "jsonrpc" => EventuallyReturns

\* The class of part_001 waits for the answer to a request without timeout.
C29_RestAwaitsWithoutTimeout ==
    /\ crawl.impl = "rest"
    /\ crawl.pc = "awaiting"
    /\ crawl.calls[1] = InFlight
    /\ crawl.requests[1].timeout = <<>>

\* A call on the class of src/unnamed/part_002 returns in the end.
C29_JsonRpcReturns == (crawl.impl = "jsonrpc") ~> (crawl.pc = "returned")

\* The result field of a payload that has one, the payload otherwise.
Unwrapped(payload) ==
    IF payload.t = "entries" /\ (\E i \in DOMAIN payload.v : payload.v[i][1] = "result")
    THEN payload.v[CHOOSE i \in DOMAIN payload.v : payload.v[i][1] = "result"][2]
    ELSE payload

\* The 'data: ' lines of the body of the reply.
DataLines == SelectSeq(parsed.reply.response.text, LAMBDA line : line.kind = "data")

\* What C30 says a listing call yields for the reply it was given: nothing
\* for a reply that is not 2xx; for an event stream with a 'data: ' line,
\* nothing when the first such line does not parse and otherwise its
\* payload, unwrapped; for a plain reply, nothing when the body does not
\* parse and otherwise its value, unwrapped.
BothEncodings(returned) ==
    /\ parsed.reply.kind /= "response" => returned = Null
    /\ (parsed.reply.kind = "response" /\ ~parsed.reply.response.ok) => returned = Null
    /\ (parsed.reply.kind = "response" /\ parsed.reply.response.ok) =>
          /\ (IsSse(parsed.reply.response) /\ Len(DataLines) > 0) =>
                IF DataLines[1].json.parses
                THEN returned = Unwrapped(DataLines[1].json.value)
                ELSE returned = Null
          /\ ~IsSse(parsed.reply.response) =>
                IF JsonParse(parsed.reply.response.text) = <<>> THEN returned = Null
                ELSE returned = Unwrapped(JsonParse(parsed.reply.response.text)[1])

\* C30: a listing call accepts both encodings of a reply: of an event
\* stream it uses the JSON payload of the first 'data: ' line only (later
\* ones are ignored, a first one that does not parse makes the call fail
\* softly), a plain reply it parses as JSON; in both cases it yields the
\* 'result' field when there is one and the whole payload otherwise; a
\* reply that is not 2xx yields no result.
C30_BothEncodings ==
    parsed.returned /= <<>> =>
        /\ BothEncodings(parsed.returned[1].part_002)
        /\ BothEncodings(parsed.returned[1].part_001)

\* The payload of the first 'data: ' line of an event stream is 0, false,
\* '' or null, itself or its result field.
FalsyInStream ==
    /\ parsed.reply.kind = "response"
    /\ IsSse(parsed.reply.response)
    /\ Len(DataLines) > 0
    /\ DataLines[1].json.parses
    /\ ~Truthy(Unwrapped(DataLines[1].json.value))

\* The same of the _jsonRpcCall of src/unnamed/part_002 alone, but for the
\* event streams whose first payload is falsy.
C30_BothEncodingsJsonRpc ==
    (parsed.returned /= <<>> /\ ~FalsyInStream) =>
        BothEncodings(parsed.returned[1].part_002)

\* An event stream of two 'data: ' lines: the result of the first is
\* returned by part_002.
C30_FirstDataLine ==
    /\ parsed.returned /= <<>>
    /\ parsed.reply = Answered(Response(TRUE, "text/event-stream",
                          <<DataLine(Parsable(RpcResult(ListDoc("tools", TwoNames)))),
                            DataLine(Parsable(Num(5)))>>))
    /\ parsed.returned[1].part_002 = ListDoc("tools", TwoNames)

\* A plain reply with a result: part_001 returns the envelope.
C30_PlainEnvelopeKept ==
    /\ parsed.returned /= <<>>
    /\ parsed.reply = Answered(JsonBody(RpcResult(ListDoc("tools", TwoNames))))
    /\ parsed.returned[1].part_001 = RpcResult(ListDoc("tools", TwoNames))
    /\ parsed.returned[1].part_002 = ListDoc("tools", TwoNames)

\* ---- C31

\* The name fields an entry has, by their place in the order name, id,
\* identifier, title; and those of them that hold a string.
PresentFields(item) == {i \in DOMAIN NameFields : KeyIn(NameFields[i], item)}
StringFields(item) == {i \in PresentFields(item) : Get(item, NameFields[i]).t = "str"}
Least(S) == CHOOSE i \in S : \A j \in S : i <= j

\* The names of the entries of a list, in the order of the list, when
\* Chosen(item) tells the fields an object entry may take its name from:
\* a string is its own name, an object has the name in the first of these
\* fields when that is a string, anything else has no name.
HasName(item, Chosen(_)) ==
    \/ item.t = "str"
    \/ /\ item.t = "entries"
       /\ Chosen(item) /= {}
       /\ Get(item, NameFields[Least(Chosen(item))]).t = "str"
NameIn(item, Chosen(_)) ==
    IF item.t = "str" THEN item ELSE Get(item, NameFields[Least(Chosen(item))])
NamesIn(value, Chosen(_)) ==
    IF value.t /= "array" THEN <<>>
    ELSE LET named == SelectSeq(value.v, LAMBDA item : HasName(item, Chosen))
         IN  [k \in 1..Len(named) |-> NameIn(named[k], Chosen)]

\* A place of the document, the top level or a container, has the key.
HasTheKey(place, key) == place.t = "entries" /\ HasKey(place.v, key)
Under(place, key) == IF HasTheKey(place, key) THEN ValueOf(place.v, key) ELSE Undef

\* The containers of a document, in the order in which they are looked
\* into: what the document holds under capabilities, abilities, features.
ContainerAt(data, i) == Under(data, ContainerKeys[i])

\* The call of _extractList has returned a list for an object document.
Extracted == extracted.returned /= <<>> /\ extracted.returned[1] /= Thrown

\* C31 (as stated): the list under the key at the top level is taken first;
\* otherwise the first of capabilities, abilities, features that has the
\* key gives the list and no later container is looked into; an object
\* entry contributes the first of name, id, identifier, title it has.
C31_FirstContainerWithKey ==
    Extracted =>
        LET data == extracted.data
            key == extracted.key
            list == extracted.returned[1].v
            top == NamesIn(Under(data, key), PresentFields)
            having == {i \in DOMAIN ContainerKeys : HasTheKey(ContainerAt(data, i), key)}
        IN  IF top /= <<>> THEN list = top
            ELSE IF having = {} THEN list = <<>>
            ELSE list = NamesIn(Under(ContainerAt(data, Least(having)), key), PresentFields)

\* C31 (amended): the list under the key at the top level is taken when it
\* gives at least one name; otherwise the first of capabilities, abilities,
\* features whose list under the key gives at least one name is taken, a
\* container that has the key with a list giving no name being passed
\* over; an object entry contributes the first of name, id, identifier,
\* title that it has with a string value.
C31_FirstContainerWithNames ==
    Extracted =>
        LET data == extracted.data
            key == extracted.key
            list == extracted.returned[1].v
            top == NamesIn(Under(data, key), StringFields)
            nested == [i \in DOMAIN ContainerKeys |->
                          NamesIn(Under(ContainerAt(data, i), key), StringFields)]
            giving == {i \in DOMAIN ContainerKeys : nested[i] /= <<>>}
        IN  IF top /= <<>> THEN list = top
            ELSE IF giving = {} THEN list = <<>>
            ELSE list = nested[Least(giving)]

\* Witness: capabilities has the key with an empty list, abilities has it
\* with an entry whose name is a number and whose id is a string, and the
\* id of that entry is returned.
C31_Witness ==
    /\ Extracted
    /\ ~HasTheKey(extracted.data, extracted.key)
    /\ Under(ContainerAt(extracted.data, 1), extracted.key) = Arr(<<>>)
    /\ Under(ContainerAt(extracted.data, 2), extracted.key)
          = Arr(<<Ordered(<<<<"name", Num(5)>>, <<"id", Str("abilities-id")>>>>)>>)
    /\ extracted.returned[1] = Arr(<<Str("abilities-id")>>)

\* ---- C32

\* giveFeedback has been called by executeTaskWithFeedback.
FeedbackCalled == run[1].pc /= "unused" \/ run[1].stages /= <<>> \/ chain /= <<>>

\* The paid request of the task was answered.
TaskSucceeded == task.settled /= <<>> /\ task.settled[1].kind = "response"
TaskFailed == task.settled /= <<>> /\ task.settled[1].kind = "error"

\* C32: executeTaskWithFeedback never throws; giveFeedback is called only
\* after the paid task succeeded; after a failed task the result has
\* feedbackResult null and giveFeedback has not been called; after a task
\* that succeeded and a giveFeedback that threw, the result has success
\* false, feedbackResult null and the taskResult of the successful task.
C32_FeedbackAfterPaidTask ==
    /\ task.pc /= "threw"
    /\ FeedbackCalled => TaskSucceeded
    /\ TaskFailed =>
          /\ ~FeedbackCalled
          /\ task.pc = "returned"
          /\ task.returned[1].feedbackResult = Null
          /\ ~task.returned[1].taskResult.success
    /\ (task.pc = "returned" /\ TaskSucceeded /\ run[1].pc = "failed") =>
          /\ task.returned[1].success = FALSE
          /\ task.returned[1].feedbackResult = Null
          /\ task.returned[1].taskResult = [success |-> TRUE, data |-> task.settled[1].data]
    /\ (task.pc = "returned" /\ TaskSucceeded) => run[1].pc \in {"done", "failed"}

\* Witness: the task was paid for and answered, giveFeedback was rejected
\* by the registry, and the call has returned.
C32_Witness ==
    /\ task.pc = "returned"
    /\ TaskSucceeded
    /\ run[1].pc = "failed"
    /\ run[1].error = SubmissionRejected
    /\ task.returned[1].success = FALSE

\* Witness: the task failed and the call has returned without feedback.
C32_WitnessTaskFailed ==
    /\ task.pc = "returned"
    /\ TaskFailed
    /\ task.returned[1] = TaskFailedResult([success |-> FALSE, error |-> Str("Network Error")])

\* ---- C33

\* The call was made without a chainId.
WithoutChainId == query.chainId = Undef

\* The lookup of the subgraph URL has failed.
LookupFailed == query.pc = "threw" /\ query.error = NoSubgraphUrl

\* C33: called without a chainId, fetchAgents, fetchAgentById and
\* getAvailableTools resolve the subgraph URL of the default network and
\* issue the query; the lookup fails with 'No subgraph URL found' only for
\* a chainId that has no configured subgraph URL, and then before any
\* request.
C33_DefaultNetworkResolves ==
    /\ (WithoutChainId /\ query.pc /= "called") =>
          /\ ~LookupFailed
          /\ Len(query.requests) >= 1
          /\ query.requests[1] = SubgraphUrl
    /\ LookupFailed =>
          /\ query.chainId.t = "num"
          /\ query.chainId.v \notin SubgraphChains
          /\ query.requests = <<>>

\* What holds of the code: the lookup fails exactly when chainId || 97 has
\* no configured subgraph URL, and then before any request; otherwise the
\* query is posted to the URL of that chain.
C33_LookupByTarget ==
    query.pc /= "called" =>
        LET target == IF query.chainId \in {Undef, Num(0)} THEN 97 ELSE query.chainId.v
        IN  IF target \in {11155111, 84532, 80002}
            THEN ~LookupFailed /\ Len(query.requests) >= 1 /\ query.requests[1] = SubgraphUrl
            ELSE LookupFailed /\ query.requests = <<>>

\* The call without a chainId has thrown at the lookup.
C33_DefaultHasNoSubgraph ==
    WithoutChainId /\ LookupFailed /\ query.requests = <<>>

\* ---- C34

\* The bytes of the authorization token a run handed to the registry, and
\* the index limit they hold in their third word.
SubmittedToken(r) == GetBytes(FeedbackAuthHex(run[r].submitted[Len(run[r].submitted)].feedbackAuth))
SubmittedIndexLimit(r) == WordValue(WordAt(SubmittedToken(r), 3))

\* C34: in every run of giveFeedback that returned, the feedbackIndex of
\* the result equals the index limit encoded in the token that was
\* submitted, and both equal the index ResolveIndex gave in this run (the
\* last index its own read returned, plus one; 1 when its read failed),
\* whatever the other runs resolved.
C34_OneIndexPerRun ==
    \A r \in Runs :
        run[r].pc = "done" =>
            /\ Len(run[r].submitted) = 1
            /\ IsUintWord(WordAt(SubmittedToken(r), 3))
            /\ run[r].result[1].feedbackIndex = SubmittedIndexLimit(r)
            /\ SubmittedIndexLimit(r) = ExpectedIndex(r)

\* Witness: two runs have returned, the second having resolved a later
\* index than the first.
C34_Witness ==
    \E r, q \in Runs :
        /\ run[r].pc = "done" /\ run[q].pc = "done"
        /\ run[r].result[1].feedbackIndex = 1
        /\ run[q].result[1].feedbackIndex = 2
        /\ SubmittedIndexLimit(q) = 2

\* ---- C35

\* The 32-byte encoding of a tag of the record: zero bytes when the record
\* has no such tag.
RecordTagBytes(feedbackFile, k) ==
    IF k \in DOMAIN feedbackFile /\ feedbackFile[k].t = "str"
    THEN StringToBytes32(feedbackFile[k].v)
    ELSE ZeroBytes32

\* What was sent to the registry agrees with the record of the run.
ChainMatchesRecord(r) ==
    \A i \in 1..Len(run[r].submitted) :
        /\ "score" \in DOMAIN run[r].feedbackFile
        /\ run[r].submitted[i].score = run[r].feedbackFile["score"]
        /\ run[r].submitted[i].tag1 = RecordTagBytes(run[r].feedbackFile, "tag1")
        /\ run[r].submitted[i].tag2 = RecordTagBytes(run[r].feedbackFile, "tag2")

\* C35: the score sent to the registry is the score of the record of the
\* same run, and the tag1 and tag2 sent are the 32-byte encodings of the
\* record's tag1 and tag2 (zero bytes when the record has no such tag),
\* for every input, also when extra overrides score, tag1 or tag2.
C35_ChainMatchesRecord == \A r \in Runs : ChainMatchesRecord(r)

\* The caller's extra map overrides one of the three values.
Overrides(params) == DOMAIN params.extra \cap {"score", "tag1", "tag2"} /= {}

\* What holds of the code: the values agree when extra overrides none of
\* score, tag1, tag2.
C35_ChainMatchesRecordWithoutOverride ==
    \A r \in Runs : ~Overrides(run[r].params) => ChainMatchesRecord(r)

\* The record says tag1 is 'third' and the registry was sent 'helpful'.
C35_TagOverridden ==
    \E r \in Runs :
        /\ run[r].pc = "done"
        /\ run[r].params.extra = ParamsExtraTag.extra
        /\ run[r].result[1].feedbackFile["tag1"] = Str(TagThird)
        /\ chain[1].args.tag1 = StringToBytes32(TagHelpful)

\* The record says the score is null and the registry was sent 0.
C35_ScoreOverridden ==
    \E r \in Runs :
        /\ run[r].pc = "done"
        /\ run[r].params = ParamsExtraScoreNull
        /\ run[r].result[1].feedbackFile["score"] = Null
        /\ chain[1].args.score = Num(0)

\* ---- C36

\* The run has computed its authorization token.
Authorized(r) ==
    "ComputeAuthorization" \in Range(run[r].stages) /\ run[r].failedAt /= "ComputeAuthorization"

\* The document the content store was given by a run whose upload succeeded.
UploadedDocument(r) == run[r].feedbackUri[2].cid

\* C36: once the token of a run is computed, the feedbackAuth field of the
\* run's record is that token: in the record that is uploaded and hashed,
\* and in the record that is returned; the token is the one made for the
\* index of this run and the one passed to the registry; all this also
\* when the caller's extra map has a feedbackAuth of its own.
C36_RecordCarriesToken ==
    \A r \in Runs :
        Authorized(r) =>
            LET token == run[r].feedbackAuth
            IN  /\ WordValue(WordAt(GetBytes(FeedbackAuthHex(token)), 3)) = run[r].feedbackIndex
                /\ run[r].feedbackFile["feedbackAuth"] = Hex(token)
                /\ run[r].uploadOutcome = "ok" =>
                      /\ UploadedDocument(r)["feedbackAuth"] = Hex(token)
                      /\ run[r].feedbackHash = Keccak256(SortedJson(UploadedDocument(r)))
                /\ \A i \in 1..Len(run[r].submitted) :
                      run[r].submitted[i].feedbackAuth = token
                /\ run[r].pc = "done" =>
                      run[r].result[1].feedbackFile["feedbackAuth"] = Hex(token)

\* Witness: the caller's extra map had a feedbackAuth of its own, the
\* record was uploaded and the call has returned.
C36_Witness ==
    \E r \in Runs :
        /\ run[r].pc = "done"
        /\ run[r].params = ParamsExtraTag
        /\ run[r].uploadOutcome = "ok"
        /\ run[r].result[1].feedbackFile["feedbackAuth"] = Hex(run[r].submitted[1].feedbackAuth)

\* ---- C37

\* Both records have been serialized and hashed.
BothHashed == canon.hashes[1] /= <<>> /\ canon.hashes[2] /= <<>>

\* The serialization a hash was taken of.
Serialized(i) == canon.hashes[i][1].keccak256

\* C37: the serialization that is hashed covers the whole record: two
\* records that differ in the value of any field, a key nested inside the
\* context included, have different serializations.
C37_SerializationCoversRecord ==
    (BothHashed /\ PairsOf(canon.records[1]) /= PairsOf(canon.records[2])) =>
        Serialized(1) /= Serialized(2)

\* The top-level pairs of a record, a nested object counting as one value
\* whatever it holds.
TopLevelPairs(entries) ==
    {<<entries[i][1], IF entries[i][2].t = "entries" THEN "object" ELSE entries[i][2]>> :
        i \in 1..Len(entries)}

\* What holds of the code: two records that differ in a key or in a value
\* that is not an object at the top level have different serializations.
C37_TopLevelCovered ==
    (BothHashed /\ TopLevelPairs(canon.records[1]) /= TopLevelPairs(canon.records[2])) =>
        Serialized(1) /= Serialized(2)

\* Two records whose contexts hold different sessions have the same
\* serialization, in which the context has no session.
C37_NestedKeyDropped ==
    /\ BothHashed
    /\ ValueOf(canon.records[1], "context") = ContextA
    /\ ValueOf(canon.records[2], "context") = ContextC
    /\ Serialized(1) = Serialized(2)
    /\ \A i \in 1..Len(Serialized(1).v) :
          Serialized(1).v[i][1] = "context" =>
              \A j \in 1..Len(Serialized(1).v[i][2].v) : Serialized(1).v[i][2].v[j][1] /= "session"

\* ---- C38

\* The run has written its network id into a record or a token, or has
\* submitted.
UsesNetwork(r) ==
    \/ "BuildRecord" \in Range(run[r].stages) /\ run[r].failedAt /= "BuildRecord"
    \/ Authorized(r)
    \/ run[r].submitted /= <<>>

\* C38: the network id a run writes into its record and its token, which
\* is the one of the agent identifier, is the chain id of the contract
\* configuration, whose registry address the token, the record and the
\* submission use; a run whose identifier names another network than the
\* configuration does not submit.
C38_OneNetwork ==
    \A r \in Runs :
        /\ UsesNetwork(r) => run[r].chainId = Num(contractConfig.chainId)
        /\ (run[r].chainId /= NaN /\ run[r].chainId /= Num(contractConfig.chainId)) =>
              run[r].submitted = <<>>

\* What holds of the code: the registry addresses are those configured for
\* the chain of the configuration, and the network id of the record and of
\* the token is the one of the identifier, whatever the configuration.
C38_NetworkOfIdentifier ==
    \A r \in Runs :
        /\ UsesNetwork(r) =>
              /\ run[r].identityRegistryAddress = RegistriesOf(contractConfig.chainId).IDENTITY
              /\ run[r].chainId = ParseInt(Split(run[r].agentId, ":")[1])
              /\ run[r].feedbackFile["agentRegistry"]
                    = Str(<<"eip155", run[r].chainId, run[r].identityRegistryAddress>>)
        /\ Authorized(r) =>
              WordValue(WordAt(GetBytes(FeedbackAuthHex(run[r].feedbackAuth)), 5)) = run[r].chainId.v

\* A run for an agent of Ethereum Sepolia, configured for Base Sepolia,
\* has submitted and returned.
C38_SubmittedAcrossNetworks ==
    \E r \in Runs :
        /\ run[r].pc = "done"
        /\ run[r].chainId = Num(11155111)
        /\ contractConfig.chainId = 84532
        /\ Len(chain) = 1


\* ---- C39

\* The capability lists of a result, by key: a list of the crawler's making
\* as it is, a JSON array as the list of its elements, and any other value
\* as no list.
CapabilityList(caps, key) ==
    IF key \notin DOMAIN caps.v THEN <<>>
    ELSE LET entry == caps.v[key]
         IN  IF "list" \in DOMAIN entry THEN <<"list", entry.list>>
             ELSE IF IsArray(entry.value) THEN <<"list", entry.value.v>>
             ELSE <<"value", entry.value>>

SameResult(one, other) ==
    IF one = Null \/ other = Null THEN one = Null /\ other = Null
    ELSE \A key \in Range(CapabilityKeys) : CapabilityList(one, key) = CapabilityList(other, key)

HasNonEmptyList(caps) ==
    \E key \in Range(CapabilityKeys) :
        /\ CapabilityList(caps, key) /= <<>>
        /\ CapabilityList(caps, key)[1] = "list"
        /\ Len(CapabilityList(caps, key)[2]) > 0

BothRan == both /= <<>> /\ \A impl \in Crawlers : both.ran[impl]

\* C39: called with the same endpoint against the same remote, the crawlers
\* of the two classes both return from fetchMcpCapabilities, either null
\* both or the same capability lists both, and a result that is not null
\* has at least one capability list that is not empty.
C39_CrawlersEquivalent ==
    BothRan =>
        /\ \A impl \in Crawlers : both.returned[impl] /= <<>>
        /\ SameResult(both.returned["jsonrpc"][1], both.returned["rest"][1])
        /\ \A impl \in Crawlers :
              both.returned[impl][1] /= Null => HasNonEmptyList(both.returned[impl][1])

\* The part of it that holds: what the crawler of part_002 returns, it
\* returns always, and when not null with a list that is not empty.
C39_JsonRpcReturnsNames ==
    (both /= <<>> /\ both.ran["jsonrpc"]) =>
        /\ both.returned["jsonrpc"] /= <<>>
        /\ both.returned["jsonrpc"][1] /= Null => HasNonEmptyList(both.returned["jsonrpc"][1])

\* The two agree on a result that is not null.
C39_AgreeOnNames ==
    /\ BothRan
    /\ \A impl \in Crawlers : both.returned[impl] /= <<>> /\ both.returned[impl][1] /= Null
    /\ SameResult(both.returned["jsonrpc"][1], both.returned["rest"][1])

\* The crawler of part_001 returns a result with no list in it where that
\* of part_002 returns null.
C39_RestReturnsNoList ==
    /\ BothRan
    /\ both.returned["jsonrpc"] = <<Null>>
    /\ both.returned["rest"] /= <<>>
    /\ both.returned["rest"][1] /= Null
    /\ ~HasNonEmptyList(both.returned["rest"][1])

\* The crawler of part_001 does not return where that of part_002 does.
C39_RestNeverReturns ==
    /\ BothRan
    /\ both.returned["jsonrpc"] /= <<>>
    /\ both.returned["rest"] = <<>>

\* The crawler of part_001 returns names where that of part_002 returns
\* null.
C39_NamesAgainstNull ==
    /\ BothRan
    /\ both.returned["jsonrpc"] = <<Null>>
    /\ both.returned["rest"] /= <<>>
    /\ both.returned["rest"][1] /= Null
    /\ HasNonEmptyList(both.returned["rest"][1])

====
